---- MODULE Spec2Model ----
(***************************************************************************)
(* Evidence cache, evidence index, evidence resolver and Wikipedia/DIP     *)
(* reconciliation of the scraper package, as state machines.               *)
(*                                                                         *)
(* Encoding of Python values.  None and the empty string are the empty     *)
(* tuple << >>, None and 0 of an integer field are 0, so that Python's     *)
(* truthiness ("x or y", "if not x") is "x # << >>" resp. "x # 0".         *)
(* Strings that the code inspects character by character are tuples of     *)
(* one-character strings.                                                  *)
(***************************************************************************)
EXTENDS Integers, Sequences, FiniteSets, TLC

(***************************************************************************)
(* Bounds of the model.                                                    *)
(***************************************************************************)
MaxCalls == 3

MaxRev == 3
MaxPuts == 3
MaxResolve == 2

VARIABLES
    index_file,   \* lines of <cache>/index/evidence_index.jsonl, in file order
    call_log,     \* the update_evidence_index calls made so far (history)
    upstream,     \* the wiki: page title -> current revision id
    raw_files,    \* <cache>/mediawiki/<safe_title>/<rev>/parse/raw.json
    meta_files,   \* <cache>/mediawiki/<safe_title>/<rev>/parse/metadata.json
    latest_files, \* <cache>/mediawiki/<safe_title>/latest.json
    put_log,      \* cache directory -> evidence id registered by the last put
    fetch_ret,    \* what the last fetch_and_cache_parse call did and returned
    clock,        \* utc_now_iso(): the number of documents written so far
    put_pc,       \* the write path of fetch_and_cache_parse taken file by
                  \* file: the next file to write and the fetched response
    res,          \* the last EvidenceResolver call and what it returned
    snip,         \* the last call of a function of snippets.py and its result
    writers,      \* concurrent update_evidence_index calls: where each is,
                  \* its entry and the dict it loaded
    write_log,    \* the concurrent calls that wrote back, in order (history)
    wiki_records, dip_records,  \* the arguments of reconcile_wiki_dip
    use_overrides,
    overrides,    \* config/link_overrides.yaml: wikipedia title -> override
    rec_pc,       \* reconcile_wiki_dip: "idle", in its "loop", or "returned"
    rec_i,        \* the Wikipedia records the loop has gone through
    canonical_persons, assertions,
    pipe,         \* PipelineRunner: the members parsed from a legislature
                  \* page and how far _normalize has gone through them
    seeds_ret,    \* the last validate_seeds call: the seeds file and the
                  \* message of the ValueError raised, "" when it returned
    dip_ingest    \* ingest_person_list: its cursor ("" for None), the
                  \* cursor of the response cached for each request cursor,
                  \* the cursors requested by this call and whether one was
                  \* requested again

indexVars == <<index_file, call_log>>
cacheVars == <<upstream, raw_files, meta_files, latest_files, put_log, fetch_ret,
              clock, put_pc>>
vars == <<index_file, call_log, upstream, raw_files, meta_files, latest_files,
          put_log, fetch_ret, clock, put_pc, res, snip, writers, write_log, wiki_records,
          dip_records, use_overrides, overrides, rec_pc, rec_i,
          canonical_persons, assertions, pipe, seeds_ret, dip_ingest>>
pipeVars == <<pipe, seeds_ret, dip_ingest>>
raceVars == <<writers, write_log>>
reconVars == <<wiki_records, dip_records, use_overrides, overrides, rec_pc,
               rec_i, canonical_persons, assertions>>

None == << >>

(***************************************************************************)
(* utils/ids.py, utils/hashing.py                                          *)
(***************************************************************************)
\* The digest of the canonical JSON text of a payload: equal payloads give
\* equal digests, different payloads different digests.
sha256_hash_json(obj) == <<"sha256", obj.pageid, obj.revid, obj.title, obj.html>>

\* uuid5 of the key "page_id|revision_id|endpoint_kind|sha256".
generate_evidence_id(page_id, revision_id, endpoint_kind, sha256) ==
    <<page_id, revision_id, endpoint_kind, sha256>>

(***************************************************************************)
(* cache/evidence_index.py: the JSONL index and its upsert.                *)
(* A line is an entry object, a blank line, text that is no JSON           *)
(* ("garbage") or JSON that is no object ("nondict").                      *)
(***************************************************************************)
NullEntry ==
    [evidence_id |-> None, source_kind |-> "", cache_metadata_path |-> None,
     cache_raw_path |-> None, page_title |-> None, page_id |-> 0,
     revision_id |-> 0, sha256 |-> None, snippet_ref |-> None]

\* The dict literal of update_evidence_index (endpoint and params are None in
\* every MediaWiki call and are left out; snippet_ref is never written).
IndexEntry(evidence_id, source_kind, cache_metadata_path, cache_raw_path, page_title, page_id, revision_id, sha256) ==
    [evidence_id |-> evidence_id, source_kind |-> source_kind,
     cache_metadata_path |-> cache_metadata_path,
     cache_raw_path |-> cache_raw_path, page_title |-> page_title,
     page_id |-> page_id, revision_id |-> revision_id, sha256 |-> sha256,
     snippet_ref |-> None]

EntryLine(e) == [kind |-> "entry", e |-> e]
OtherLine(k) == [kind |-> k, e |-> NullEntry]

\* A dict that keeps the old value next to the new one.
DictPutAppend(d, e) == Append(d, e)

\* existing[key] = e on an insertion-ordered dict kept as a tuple of entries:
\* an existing key keeps its position and takes the new value.
DictPut(d, e) ==
    IF \E i \in 1..Len(d) : d[i].evidence_id = e.evidence_id
    THEN [i \in 1..Len(d) |->
             IF d[i].evidence_id = e.evidence_id THEN e ELSE d[i]]
    ELSE Append(d, e)

\* The "Load existing index" loop: blank and undecodable lines are skipped,
\* every decoded line is stored under e.get("evidence_id").
RECURSIVE LoadExisting(_)
LoadExisting(lines) ==
    IF lines = << >> THEN << >>
    ELSE LET n    == Len(lines)
             head == LoadExisting(SubSeq(lines, 1, n - 1))
         IN  IF lines[n].kind = "entry" THEN DictPut(head, lines[n].e)
             ELSE head

\* json.loads gives a list, number or string: e.get raises AttributeError,
\* which the loop does not catch (only JSONDecodeError is).
UpdateRaises(lines) == \E i \in 1..Len(lines) : lines[i].kind = "nondict"

\* The file after update_evidence_index(entry) returned.
WriteBack(existing) == [i \in 1..Len(existing) |-> EntryLine(existing[i])]

\* An upsert that appends the entry to the file as it is.
AppendFile(lines, entry) == Append(lines, EntryLine(entry))

UpsertFile(lines, entry) == WriteBack(DictPut(LoadExisting(lines), entry))

(***************************************************************************)
(* update_evidence_index run by concurrent writers: the load of the        *)
(* existing index and the write-back are separate steps with nothing       *)
(* serialising them.  seen is the number of write-backs that had completed *)
(* when the writer loaded (history).                                       *)
(***************************************************************************)
Writers == {1, 2}

IdleWriter == [pc |-> "idle", entry |-> NullEntry, existing |-> << >>, seen |-> 0]

InitWriters ==
    /\ writers = [w \in Writers |-> IdleWriter]
    /\ write_log = << >>

\* No reconciliation is running.
InitNoRecon ==
    /\ wiki_records = << >>
    /\ dip_records = << >>
    /\ use_overrides = FALSE
    /\ overrides = << >>
    /\ rec_pc = "idle"
    /\ rec_i = 0
    /\ canonical_persons = << >>
    /\ assertions = << >>

Started ==
    Len(write_log) + Cardinality({w \in Writers : writers[w].pc = "loaded"})

\* Lines 53-68: load the existing index, then existing[evidence_id] = entry.
WriterLoad(w, entry) ==
    /\ writers[w].pc = "idle"
    /\ Started < MaxCalls
    /\ ~UpdateRaises(index_file)
    /\ writers' = [writers EXCEPT ![w] =
                      [pc |-> "loaded", entry |-> entry,
                       existing |-> DictPut(LoadExisting(index_file), entry),
                       seen |-> Len(write_log)]]
    /\ UNCHANGED <<index_file, call_log, cacheVars, res, snip, write_log, reconVars, pipeVars>>

\* A write-back that loads the index again just before it writes.
WriterWriteReloaded(w) ==
    /\ writers[w].pc = "loaded"
    /\ index_file' = UpsertFile(index_file, writers[w].entry)
    /\ write_log' = Append(write_log,
                           [entry |-> writers[w].entry, seen |-> writers[w].seen])
    /\ writers' = [writers EXCEPT ![w] = IdleWriter]
    /\ UNCHANGED <<call_log, cacheVars, res, snip, reconVars, pipeVars>>

\* Lines 70-73: the file is rewritten from the dict the writer holds.
WriterWrite(w) ==
    /\ writers[w].pc = "loaded"
    /\ index_file' = WriteBack(writers[w].existing)
    /\ write_log' = Append(write_log,
                           [entry |-> writers[w].entry, seen |-> writers[w].seen])
    /\ writers' = [writers EXCEPT ![w] = IdleWriter]
    /\ UNCHANGED <<call_log, cacheVars, res, snip, reconVars, pipeVars>>

(***************************************************************************)
(* The wiki (mediawiki/client.py): two pages whose titles have the same    *)
(* filesystem-safe form.  Revision ids are unique across pages and a       *)
(* revision determines its payload.                                        *)
(***************************************************************************)
TitleList == << <<"M", "ü", "l">>, <<"M", "ö", "l">> >>
Titles == {TitleList[i] : i \in 1..Len(TitleList)}
PageId(t) == CHOOSE i \in 1..Len(TitleList) : TitleList[i] = t

SetMax(S) == CHOOSE x \in S : \A y \in S : y <= x
NextRev == 1 + SetMax({upstream[t] : t \in Titles})

\* response.json() of action=parse: {"parse": {title, pageid, revid, text}}.
fetch_parse(page_title) ==
    [pageid |-> PageId(page_title), revid |-> upstream[page_title],
     title |-> page_title,
     html |-> <<"html", PageId(page_title), upstream[page_title]>>]

\* extract_query_data(fetch_query(...)).revision_id
fetch_query(page_title) == upstream[page_title]

(***************************************************************************)
(* cache/mediawiki_cache.py                                                *)
(***************************************************************************)
SafeChars == {"M", "l", "A", "B", "-", "_"}

RECURSIVE StripUnderscores(_)
StripUnderscores(s) ==
    IF s = << >> THEN s
    ELSE IF Head(s) = "_" THEN StripUnderscores(Tail(s))
    ELSE IF s[Len(s)] = "_" THEN StripUnderscores(SubSeq(s, 1, Len(s) - 1))
    ELSE s

\* re.sub(r"[^a-zA-Z0-9_-]", "_", title).strip("_")
normalize_title(title) ==
    StripUnderscores([i \in 1..Len(title) |->
                         IF title[i] \in SafeChars THEN title[i] ELSE "_"])

\* The directory <cache>/mediawiki/<safe_title>/<revision_id>/parse.
get_cache_path(page_title, revision_id) ==
    <<normalize_title(page_title), revision_id>>

\* <cache>/mediawiki/<safe_title>/latest.json
get_latest_manifest_path(page_title) == normalize_title(page_title)

IdlePut == [step |-> "idle", page_title |-> None, response_json |-> None,
            retrieved_at |-> 0]
NullDoc == [page_id |-> 0, revision_id |-> 0, page_title |-> None, html |-> None]
NullRet == [revalidate |-> FALSE, parsed |-> FALSE, doc |-> NullDoc]

load_cached_parse_response(raw) ==
    [page_id |-> raw.pageid, revision_id |-> raw.revid,
     page_title |-> raw.title, html |-> raw.html]

WriteFile(files, path, content) ==
    [p \in DOMAIN files \cup {path} |-> IF p = path THEN content ELSE files[p]]

\* The revalidate branch without the comparison of the revisions.
RevalidateHitAnyRevision(page_title, current_revision) ==
    /\ get_latest_manifest_path(page_title) \in DOMAIN latest_files
    /\ get_cache_path(page_title, current_revision) \in DOMAIN raw_files

\* The revalidate branch returns the cached document.
RevalidateHit(page_title, current_revision) ==
    LET latest_path == get_latest_manifest_path(page_title)
    IN  /\ latest_path \in DOMAIN latest_files
        /\ latest_files[latest_path].revision_id = current_revision
        /\ get_cache_path(page_title, current_revision) \in DOMAIN raw_files

\* The "not force and latest_path.exists()" branch returns the cached document.
LatestHit(page_title) ==
    LET latest_path == get_latest_manifest_path(page_title)
    IN  /\ latest_path \in DOMAIN latest_files
        /\ get_cache_path(page_title, latest_files[latest_path].revision_id)
               \in DOMAIN raw_files

ReturnCached(raw_path, revalidate) ==
    /\ fetch_ret' = [revalidate |-> revalidate, parsed |-> FALSE,
                     doc |-> load_cached_parse_response(raw_files[raw_path])]
    /\ UNCHANGED <<index_file, raw_files, meta_files, latest_files, put_log, clock,
                   put_pc>>

\* The write path: fetch_parse, raw.json, metadata.json, latest.json, index.
FetchAndStore(page_title, revalidate) ==
    LET retrieved_at  == clock + 1
        response_json == fetch_parse(page_title)
        page_id       == response_json.pageid
        revision_id   == response_json.revid
        cache_path    == get_cache_path(page_title, revision_id)
        sha256        == sha256_hash_json(response_json)
        metadata      == [retrieved_at |-> retrieved_at, sha256 |-> sha256,
                          page_title |-> page_title, page_id |-> page_id,
                          revision_id |-> revision_id]
        latest        == [revision_id |-> revision_id,
                          retrieved_at |-> retrieved_at, sha256 |-> sha256]
        evidence_id   == generate_evidence_id(page_id, revision_id, "parse", sha256)
    IN  /\ clock < MaxPuts
        /\ ~UpdateRaises(index_file)
        /\ clock' = clock + 1
        /\ raw_files' = WriteFile(raw_files, cache_path, response_json)
        /\ meta_files' = WriteFile(meta_files, cache_path, metadata)
        /\ latest_files' = WriteFile(latest_files,
                                     get_latest_manifest_path(page_title), latest)
        /\ index_file' = UpsertFile(index_file,
               IndexEntry(evidence_id, "mediawiki", cache_path, cache_path,
                          page_title, page_id, revision_id, sha256))
        /\ put_log' = WriteFile(put_log, cache_path, evidence_id)
        /\ fetch_ret' = [revalidate |-> revalidate, parsed |-> TRUE,
                         doc |-> [page_id |-> page_id, revision_id |-> revision_id,
                                  page_title |-> page_title,
                                  html |-> response_json.html]]
        /\ UNCHANGED put_pc

fetch_and_cache_parse(page_title, force, revalidate) ==
    /\ IF revalidate /\ RevalidateHit(page_title, fetch_query(page_title))
       THEN ReturnCached(get_cache_path(page_title, fetch_query(page_title)),
                         revalidate)
       ELSE IF ~(force \/ revalidate) /\ LatestHit(page_title)
       THEN ReturnCached(get_cache_path(page_title,
                latest_files[get_latest_manifest_path(page_title)].revision_id),
                revalidate)
       ELSE FetchAndStore(page_title, revalidate)
    /\ UNCHANGED <<call_log, upstream, res, snip, raceVars, reconVars, pipeVars>>

(***************************************************************************)
(* evidence/snippets.py.  A text is a tuple of characters.  BeautifulSoup  *)
(* is Soup: it gives the texts (get_text) of the <p> elements inside       *)
(* div.mw-parser-output, and the tables, each with its class and the cell  *)
(* texts of its <tr> rows.                                                 *)
(* A snippet reference is None, the dict <<"dict", type, table_index,      *)
(* row_index>>, or a string <<"str", part, ...>> of the parts between its  *)
(* colons; a part after the first is <<n>> when it is the numeral of n and *)
(* << >> when int() rejects it.                                            *)
(***************************************************************************)
MIN_LEAD_LEN == 80
SNIPPET_MAX_LEN == 500

WhitespaceChars == {" ", "\n"}
Digits == {"0", "1", "2", "3", "4", "5", "6", "7", "8", "9"}
Ellipsis == <<".", ".", ".">>

SetMin(S) == CHOOSE x \in S : \A y \in S : x <= y

IsKept(marked) == marked[2]

\* The characters of text at the positions kept, in order.
Keep(text, kept) ==
    LET marked   == [i \in 1..Len(text) |-> <<text[i], i \in kept>>]
        selected == SelectSeq(marked, IsKept)
    IN  [k \in 1..Len(selected) |-> selected[k][1]]

\* The positions inside a match of \[\d+\]: between a "[" and a "]" that
\* have digits, at least one, and nothing else between them.
InFootnote(text) ==
    LET opens  == {s \in 1..Len(text) : text[s] = "["}
        closes == {e \in 1..Len(text) : text[e] = "]"}
        spans  == {se \in opens \X closes :
                     /\ se[2] - se[1] >= 2
                     /\ \A j \in (se[1] + 1)..(se[2] - 1) : text[j] \in Digits}
    IN  UNION {se[1]..se[2] : se \in spans}

\* re.sub(r'\[\d+\]', '', text)
RemoveFootnotes(text) ==
    LET inside == InFootnote(text)
    IN  IF inside = {} THEN text ELSE Keep(text, (1..Len(text)) \ inside)

\* re.sub(r'\s+', ' ', text): the first character of every run of
\* whitespace stays, as a space.
CollapseWhitespace(text) ==
    LET spaced == [i \in 1..Len(text) |->
                      IF text[i] \in WhitespaceChars THEN " " ELSE text[i]]
    IN  Keep(spaced, {i \in 1..Len(text) :
                         ~(text[i] \in WhitespaceChars /\ i > 1
                           /\ text[i - 1] \in WhitespaceChars)})

\* text.strip()
Strip(text) ==
    LET inked == {i \in 1..Len(text) : text[i] \notin WhitespaceChars}
    IN  IF inked = {} THEN << >>
        ELSE SubSeq(text, SetMin(inked), SetMax(inked))

clean_snippet_text(text) ==
    IF text = << >> THEN << >>
    ELSE Strip(CollapseWhitespace(RemoveFootnotes(text)))

\* text.rsplit(' ', 1)[0]
RsplitHead(text) ==
    LET spaces == {i \in 1..Len(text) : text[i] = " "}
    IN  IF spaces = {} THEN text ELSE SubSeq(text, 1, SetMax(spaces) - 1)

\* cleaned[:max_len].rsplit(' ', 1)[0] + "..." when len(cleaned) > max_len
Truncate(cleaned, max_len) ==
    IF Len(cleaned) > max_len
    THEN RsplitHead(SubSeq(cleaned, 1, max_len)) \o Ellipsis
    ELSE cleaned

\* The document of a wiki page, by page and revision: page 1 has a lead
\* paragraph and a wikitable with a header row, a data row and a data row
\* whose cells hold no text; the other pages have a paragraph and no table.
PageDoc(page_id, revision_id) ==
    IF page_id = 1
    THEN [paragraphs |-> << <<"A", " ", "B", "[", "1", "]">> >>,
          tables |-> << [wikitable |-> TRUE,
                         rows |-> << << <<"N">>, <<"P">> >>,
                                     << <<"A", " ", "B", "[", "2", "]">>,
                                        <<"S">> >>,
                                     << <<" ">>, << >> >> >>] >>]
    ELSE [paragraphs |-> << <<"C", "\n", "D">> >>, tables |-> << >>]

\* BeautifulSoup(html, "html.parser")
Soup(html) ==
    IF html[1] = "html" THEN PageDoc(html[2], html[3])
    ELSE [paragraphs |-> html[2], tables |-> html[3]]

extract_lead_paragraph(html, max_len) ==
    IF html = None THEN None
    ELSE LET ps      == Soup(html).paragraphs
             cleaned == [i \in 1..Len(ps) |-> clean_snippet_text(ps[i])]
             long    == {i \in 1..Len(ps) : Len(cleaned[i]) >= MIN_LEAD_LEN}
             any     == {i \in 1..Len(ps) : cleaned[i] # << >>}
         IN  IF long # {} THEN Truncate(cleaned[SetMin(long)], max_len)
             ELSE IF any # {} THEN Truncate(cleaned[SetMin(any)], max_len)
             ELSE None

TableRowRef(t, r) == <<"dict", "table_row", t, r>>
LegacyRef(t, r)   == <<"str", "table_row", <<t>>, <<r>> >>
LegacyBadRef      == <<"str", "table_row", << >> >>

\* The wikitable tables, or all tables if there is none.
AllTables(doc) ==
    LET wikitables == {i \in 1..Len(doc.tables) : doc.tables[i].wikitable}
        Pick[i \in 0..Len(doc.tables)] ==
            IF i = 0 THEN << >>
            ELSE IF i \in wikitables THEN Append(Pick[i - 1], doc.tables[i])
            ELSE Pick[i - 1]
    IN  IF wikitables = {} THEN doc.tables ELSE Pick[Len(doc.tables)]

\* rows[1:] if len(rows) > 1 else rows
DataRows(rows) == IF Len(rows) > 1 THEN Tail(rows) ELSE rows

\* The stripped cell texts that are not empty, in order.
RECURSIVE CellTexts(_)
CellTexts(cells) ==
    IF cells = << >> THEN << >>
    ELSE IF Strip(Head(cells)) # << >>
    THEN <<Strip(Head(cells))>> \o CellTexts(Tail(cells))
    ELSE CellTexts(Tail(cells))

\* " | ".join(cell_texts)
RECURSIVE Join(_)
Join(texts) ==
    IF texts = << >> THEN << >>
    ELSE IF Len(texts) = 1 THEN Head(texts)
    ELSE Head(texts) \o <<" ", "|", " ">> \o Join(Tail(texts))

\* snippet_ref is a dict here; table_index and row_index count from 0.
extract_table_row_snippet(html, snippet_ref, max_len) ==
    IF html = None \/ snippet_ref = None THEN None
    ELSE IF snippet_ref[2] # "table_row" THEN None
    ELSE LET table_index == snippet_ref[3]
             row_index   == snippet_ref[4]
             all_tables  == AllTables(Soup(html))
         IN  IF table_index >= Len(all_tables) THEN None
             ELSE LET data_rows == DataRows(all_tables[table_index + 1].rows)
                  IN  IF row_index >= Len(data_rows) THEN None
                      ELSE LET cell_texts == CellTexts(data_rows[row_index + 1])
                           IN  IF cell_texts = << >> THEN None
                               ELSE Truncate(clean_snippet_text(Join(cell_texts)),
                                             max_len)

\* snippet_ref.startswith("table_row:")
IsLegacyTableRow(snippet_ref) ==
    /\ snippet_ref # None
    /\ snippet_ref[1] = "str"
    /\ Len(snippet_ref) >= 3
    /\ snippet_ref[2] = "table_row"

\* int(parts[1]) or int(parts[2]) raises ValueError.
LegacyRaises(snippet_ref) ==
    \E i \in 3..Len(snippet_ref) : i <= 4 /\ snippet_ref[i] = << >>

\* ref_dict of the legacy branch.
LegacyDecode(snippet_ref) ==
    <<"dict", "table_row", snippet_ref[3][1],
      IF Len(snippet_ref) > 3 THEN snippet_ref[4][1] ELSE 0>>

\* A table-row attempt that takes the first data row of the first table when
\* there is no reference.
RowAttemptFirstRow(html, snippet_ref, max_len) ==
    extract_table_row_snippet(html,
        IF snippet_ref = None \/ snippet_ref[1] # "dict" THEN TableRowRef(0, 0)
        ELSE snippet_ref, max_len)

\* The table-row attempts of extract_snippet: the snippet or None.
RowAttempt(html, snippet_ref, max_len) ==
    IF snippet_ref = None THEN None
    ELSE IF snippet_ref[1] = "dict" /\ snippet_ref[2] = "table_row"
    THEN extract_table_row_snippet(html, snippet_ref, max_len)
    ELSE IF IsLegacyTableRow(snippet_ref) /\ ~LegacyRaises(snippet_ref)
    THEN extract_table_row_snippet(html, LegacyDecode(snippet_ref), max_len)
    ELSE None

\* prefer == "lead_paragraph" or (prefer == "table_row" and not snippet_ref)
FallbackTaken(prefer, snippet_ref) ==
    prefer = "lead_paragraph" \/ (prefer = "table_row" /\ snippet_ref = None)

\* Returns <<snippet, snippet_source>>.
extract_snippet(html, snippet_ref, max_len, prefer) ==
    IF html = None THEN <<None, None>>
    ELSE LET row  == RowAttempt(html, snippet_ref, max_len)
             lead == extract_lead_paragraph(html, max_len)
         IN  IF row # None THEN <<row, <<"table_row">> >>
             ELSE IF FallbackTaken(prefer, snippet_ref) /\ lead # None
             THEN <<lead, <<"lead_paragraph">> >>
             ELSE <<None, None>>

(***************************************************************************)
(* evidence/backends/file_cache.py                                         *)
(***************************************************************************)
\* load_evidence_index raises AttributeError on JSON that is no object.
LoadRaises(lines) == \E i \in 1..Len(lines) : lines[i].kind = "nondict"

\* index.get(evidence_id) of load_evidence_index(): entries without an
\* evidence_id are left out, the last line of an id wins.
IndexHits(lines, evidence_id) ==
    {i \in 1..Len(lines) : /\ lines[i].kind = "entry"
                           /\ lines[i].e.evidence_id # None
                           /\ lines[i].e.evidence_id = evidence_id}

IndexGet(lines, evidence_id) ==
    IF IndexHits(lines, evidence_id) = {} THEN NullEntry
    ELSE lines[SetMax(IndexHits(lines, evidence_id))].e

\* A scan that recomputes the id of another endpoint kind.
ScanMatchesQueryKind(evidence_id) ==
    {d \in DOMAIN meta_files \cap DOMAIN raw_files :
        generate_evidence_id(meta_files[d].page_id, meta_files[d].revision_id,
                             "query", sha256_hash_json(raw_files[d]))
            = evidence_id}

\* The cache directories whose recomputed evidence id is evidence_id.
ScanMatches(evidence_id) ==
    {d \in DOMAIN meta_files \cap DOMAIN raw_files :
        generate_evidence_id(meta_files[d].page_id, meta_files[d].revision_id,
                             "parse", sha256_hash_json(raw_files[d]))
            = evidence_id}

\* The first match in directory order (any match: the order is the file
\* system's); NullEntry when there is none.
scan_cache_for_evidence_id(evidence_id) ==
    IF ScanMatches(evidence_id) = {} THEN NullEntry
    ELSE LET d == CHOOSE d \in ScanMatches(evidence_id) : TRUE
         IN  [evidence_id |-> evidence_id, source_kind |-> "mediawiki",
              cache_metadata_path |-> d, cache_raw_path |-> d,
              page_title |-> meta_files[d].page_title,
              page_id |-> meta_files[d].page_id,
              revision_id |-> meta_files[d].revision_id,
              sha256 |-> sha256_hash_json(raw_files[d]),
              snippet_ref |-> None]

NullResolved ==
    [evidence_id |-> None, source_kind |-> "", page_title |-> None,
     page_id |-> 0, revision_id |-> 0, retrieved_at_utc |-> 0, sha256 |-> None,
     cache_metadata_path |-> None, cache_raw_path |-> None, snippet |-> None,
     snippet_source |-> None, snippet_ref |-> None, purpose |-> ""]

Or(a, b, none) == IF a # none THEN a ELSE b

\* ResolvedEvidence declares snippet_ref: Optional[Dict[str, Any]]; the model
\* constructor raises ValidationError for a string.
ValidationFails(snippet_ref) == snippet_ref # None /\ snippet_ref[1] # "dict"

\* The snippet reference of the call, without the one of the index entry.
EffectiveRefOfCall(snippet_ref, entry) == snippet_ref

\* snippet_ref if snippet_ref is not None else entry.get("snippet_ref")
EffectiveRef(snippet_ref, entry) ==
    IF snippet_ref # None THEN snippet_ref ELSE entry.snippet_ref

\* The scan opens raw.json of every directory it visits that has both files,
\* until one matches: it reads a raw document exactly when there is such a
\* directory.
ScanReadsRaw == DOMAIN meta_files \cap DOMAIN raw_files # {}

\* [outcome |-> "ok" | "none" | "raise", via |-> "index" | "scan" (where the
\*  entry was found), read_raw |-> whether a raw.json was opened (history),
\*  ev |-> the ResolvedEvidence]
resolve_from_file_cache(evidence_id, with_snippet, prefer_snippet, snippet_ref, purpose) ==
    LET hit      == IndexGet(index_file, evidence_id)
        entry    == IF hit # NullEntry THEN hit
                    ELSE scan_cache_for_evidence_id(evidence_id)
        mpath    == entry.cache_metadata_path
        rpath    == entry.cache_raw_path
        metadata == meta_files[mpath]
        eff_ref  == EffectiveRef(snippet_ref, entry)
        html     == IF entry.source_kind = "mediawiki" THEN raw_files[rpath].html
                    ELSE None
        got      == IF with_snippet /\ rpath # None /\ rpath \in DOMAIN raw_files
                    THEN extract_snippet(html, eff_ref, SNIPPET_MAX_LEN, prefer_snippet)
                    ELSE <<None, None>>
        via      == IF hit # NullEntry THEN "index" ELSE "scan"
        scanned  == hit = NullEntry /\ ScanReadsRaw
        opened   == with_snippet /\ rpath # None /\ rpath \in DOMAIN raw_files
    IN  IF LoadRaises(index_file)
        THEN [outcome |-> "raise", via |-> "index", read_raw |-> FALSE,
              ev |-> NullResolved]
        ELSE IF entry = NullEntry
        THEN [outcome |-> "none", via |-> via, read_raw |-> scanned,
              ev |-> NullResolved]
        ELSE IF mpath = None \/ mpath \notin DOMAIN meta_files
        THEN [outcome |-> "none", via |-> via, read_raw |-> scanned,
              ev |-> NullResolved]
        ELSE IF ValidationFails(eff_ref)
        THEN [outcome |-> "raise", via |-> via, read_raw |-> scanned \/ opened,
              ev |-> NullResolved]
        ELSE [outcome |-> "ok", via |-> via, read_raw |-> scanned \/ opened,
              ev |-> [evidence_id |-> evidence_id,
                      source_kind |-> entry.source_kind,
                      page_title |-> Or(entry.page_title, metadata.page_title, None),
                      page_id |-> Or(entry.page_id, metadata.page_id, 0),
                      revision_id |-> Or(entry.revision_id, metadata.revision_id, 0),
                      retrieved_at_utc |-> metadata.retrieved_at,
                      sha256 |-> Or(entry.sha256, metadata.sha256, None),
                      cache_metadata_path |-> mpath, cache_raw_path |-> rpath,
                      snippet |-> got[1], snippet_source |-> got[2],
                      snippet_ref |-> eff_ref, purpose |-> purpose]]

(***************************************************************************)
(* evidence/resolver.py                                                    *)
(***************************************************************************)
\* One loop iteration of EvidenceResolver.resolve.
ResolveId(evidence_id, with_snippets) ==
    resolve_from_file_cache(evidence_id, with_snippets, "lead_paragraph", None, "")

\* One loop iteration of EvidenceResolver.resolve_refs.
ResolveRef(ref, with_snippets) ==
    resolve_from_file_cache(ref.evidence_id, with_snippets,
        IF ref.snippet_ref # None /\ ref.snippet_ref[2] = "table_row"
        THEN "table_row" ELSE "lead_paragraph",
        ref.snippet_ref, ref.purpose)

\* The list built by the loop over per-item results rs.
RECURSIVE Collect(_)
Collect(rs) ==
    IF rs = << >> THEN << >>
    ELSE IF Head(rs).outcome = "ok" THEN <<Head(rs).ev>> \o Collect(Tail(rs))
    ELSE Collect(Tail(rs))

\* Where the entries of the resolved items were found (history).
RECURSIVE CollectVia(_)
CollectVia(rs) ==
    IF rs = << >> THEN << >>
    ELSE IF Head(rs).outcome = "ok" THEN <<Head(rs).via>> \o CollectVia(Tail(rs))
    ELSE CollectVia(Tail(rs))

AnyRaise(rs) == \E i \in 1..Len(rs) : rs[i].outcome = "raise"

\* Whether the loop opened a raw.json before it ended or raised (history).
AnyReadRaw(rs) ==
    \E i \in 1..Len(rs) :
        /\ rs[i].read_raw
        /\ \A j \in 1..(i - 1) : rs[j].outcome # "raise"

\* EvidenceResolver.resolve(evidence_ids, with_snippets)
resolve(evidence_ids, with_snippets) ==
    LET rs == [i \in 1..Len(evidence_ids) |->
                  ResolveId(evidence_ids[i], with_snippets)]
    IN  /\ res' = [call |-> "resolve", ids |-> evidence_ids, refs |-> << >>,
                   with_snippets |-> with_snippets, raised |-> AnyRaise(rs),
                   out |-> IF AnyRaise(rs) THEN << >> ELSE Collect(rs),
                   via |-> IF AnyRaise(rs) THEN << >> ELSE CollectVia(rs),
                   read_raw |-> AnyReadRaw(rs)]
        /\ UNCHANGED <<indexVars, cacheVars, snip, raceVars, reconVars, pipeVars>>

\* EvidenceResolver.resolve_refs(evidence_refs, with_snippets)
resolve_refs(evidence_refs, with_snippets) ==
    LET rs == [i \in 1..Len(evidence_refs) |->
                  ResolveRef(evidence_refs[i], with_snippets)]
    IN  /\ res' = [call |-> "resolve_refs",
                   ids |-> [i \in 1..Len(evidence_refs) |->
                               evidence_refs[i].evidence_id],
                   refs |-> evidence_refs,
                   with_snippets |-> with_snippets, raised |-> AnyRaise(rs),
                   out |-> IF AnyRaise(rs) THEN << >> ELSE Collect(rs),
                   via |-> IF AnyRaise(rs) THEN << >> ELSE CollectVia(rs),
                   read_raw |-> AnyReadRaw(rs)]
        /\ UNCHANGED <<indexVars, cacheVars, snip, raceVars, reconVars, pipeVars>>

(***************************************************************************)
(* Single-writer index: update_evidence_index called with arbitrary        *)
(* arguments (the pipeline calls it with ids and fields of its own).       *)
(***************************************************************************)
IdxSha    == <<"sha256", 1, 1, <<"A">>, <<"html", 1, 1>>>>
IdxTitles == {<<"A">>, <<"B">>}
IdxShas   == {None, IdxSha}
IdxIds    == {generate_evidence_id(p, 1, "parse", IdxSha) : p \in 1..2}
IdxArgs   ==
    {IndexEntry(id, "mediawiki", <<t, 1>>, <<t, 1>>, t, id[1], 1, s) :
        id \in IdxIds, t \in IdxTitles, s \in IdxShas}

update_evidence_index(entry) ==
    /\ Len(call_log) < MaxCalls
    /\ ~UpdateRaises(index_file)
    /\ index_file' = UpsertFile(index_file, entry)
    /\ call_log' = Append(call_log, entry)
    /\ UNCHANGED <<cacheVars, res, snip, raceVars, reconVars, pipeVars>>

UpdateCall == \E entry \in IdxArgs : update_evidence_index(entry)

IdlePipe == [pc |-> "idle", html |-> << >>, fetch_person_pages |-> FALSE,
             members |-> << >>, i |-> 0]
NullSeeds == [call |-> FALSE, seeds |-> << >>, raised |-> ""]
IdleDip == [pc |-> "idle", force |-> FALSE, cursor |-> "", cache |-> << >>,
            requested |-> {}, again |-> FALSE]
InitPipe == pipe = IdlePipe /\ seeds_ret = NullSeeds /\ dip_ingest = IdleDip

NullSnip == [call |-> "", html |-> None, snippet_ref |-> None, max_len |-> 0,
             prefer |-> "", out |-> <<None, None>>]
NullRes == [call |-> "", ids |-> << >>, refs |-> << >>, with_snippets |-> FALSE,
            raised |-> FALSE, out |-> << >>, via |-> << >>, read_raw |-> FALSE]

InitCache ==
    /\ upstream = [t \in Titles |-> PageId(t)]
    /\ raw_files = << >>
    /\ meta_files = << >>
    /\ latest_files = << >>
    /\ put_log = << >>
    /\ fetch_ret = NullRet
    /\ clock = 0
    /\ put_pc = IdlePut

InitIndex ==
    /\ index_file = << >>
    /\ call_log = << >>
    /\ InitCache
    /\ res = NullRes
    /\ snip = NullSnip
    /\ InitPipe
    /\ InitWriters
    /\ InitNoRecon

NextIndex == UpdateCall

SpecIndex == InitIndex /\ [][NextIndex]_vars

(***************************************************************************)
(* The index with two concurrent writers.                                  *)
(***************************************************************************)
RaceArgs == {e \in IdxArgs : e.sha256 = IdxSha}

Load == \E w \in Writers, entry \in RaceArgs : WriterLoad(w, entry)

Write == \E w \in Writers : WriterWrite(w)

NextRace == Load \/ Write

SpecRace == InitIndex /\ [][NextRace]_vars

(***************************************************************************)
(* Cache, index and resolver with one writer.                              *)
(***************************************************************************)
\* All tuples over S of length 0..n.
RECURSIVE SeqsUpTo(_, _)
SeqsUpTo(S, n) ==
    IF n = 0 THEN {<< >>}
    ELSE LET shorter == SeqsUpTo(S, n - 1)
         IN  shorter \cup {Append(q, x) : q \in shorter, x \in S}

BogusId == generate_evidence_id(0, 0, "parse", None)
PutIds == {put_log[d] : d \in DOMAIN put_log}

\* models.domain.EvidenceRef: evidence_id, snippet_ref, purpose.
EvidenceRefs(ids) ==
    [evidence_id : ids,
     snippet_ref : {None, TableRowRef(0, 0), TableRowRef(0, 1)},
     purpose : {"membership_row"}]

UpstreamEdit ==
    \E t \in Titles :
        /\ NextRev <= MaxRev
        /\ upstream' = [upstream EXCEPT ![t] = NextRev]
        /\ UNCHANGED <<index_file, call_log, raw_files, meta_files, latest_files,
                       put_log, fetch_ret, clock, put_pc, res, snip, raceVars,
                       reconVars, pipeVars>>

FetchCall ==
    \E t \in Titles, force \in BOOLEAN, revalidate \in BOOLEAN :
        fetch_and_cache_parse(t, force, revalidate)

\* The index file is deleted (it is rebuilt by later puts).
LoseIndex ==
    /\ index_file # << >>
    /\ index_file' = << >>
    /\ UNCHANGED <<call_log, cacheVars, res, snip, raceVars, reconVars, pipeVars>>

\* The resolver writes nothing: one call, at any point of a run, covers the
\* calls of every run.
ResolveCall ==
    /\ res.call = ""
    /\ \E id \in PutIds \cup {BogusId}, ws \in BOOLEAN : resolve(<<id>>, ws)

Init ==
    /\ index_file = << >>
    /\ call_log = << >>
    /\ InitCache
    /\ res = NullRes
    /\ snip = NullSnip
    /\ InitPipe
    /\ InitWriters
    /\ InitNoRecon

Next == UpstreamEdit \/ FetchCall \/ LoseIndex \/ ResolveCall

Spec == Init /\ [][Next]_vars

(***************************************************************************)
(* The write path of fetch_and_cache_parse file by file.  Each write_text  *)
(* and the index update is a step of its own; between two steps the       *)
(* process may die, and the files written so far stay on disk where any    *)
(* reader finds them.                                                      *)
(***************************************************************************)
\* client.fetch_parse, sha256 and utc_now_iso of a forced put.
PutFetch(page_title) ==
    /\ put_pc.step = "idle"
    /\ clock < MaxPuts
    /\ clock' = clock + 1
    /\ put_pc' = [step |-> "raw", page_title |-> page_title,
                  response_json |-> fetch_parse(page_title),
                  retrieved_at |-> clock + 1]
    /\ UNCHANGED <<indexVars, upstream, raw_files, meta_files, latest_files,
                   put_log, fetch_ret, res, snip, raceVars, reconVars, pipeVars>>

PutPath == get_cache_path(put_pc.page_title, put_pc.response_json.revid)

\* raw_path.write_text
PutWriteRaw ==
    /\ put_pc.step = "raw"
    /\ raw_files' = WriteFile(raw_files, PutPath, put_pc.response_json)
    /\ put_pc' = [put_pc EXCEPT !.step = "metadata"]
    /\ UNCHANGED <<indexVars, upstream, meta_files, latest_files, put_log,
                   fetch_ret, clock, res, snip, raceVars, reconVars, pipeVars>>

\* metadata_path.write_text
PutWriteMetadata ==
    /\ put_pc.step = "metadata"
    /\ meta_files' = WriteFile(meta_files, PutPath,
           [retrieved_at |-> put_pc.retrieved_at,
            sha256 |-> sha256_hash_json(put_pc.response_json),
            page_title |-> put_pc.page_title,
            page_id |-> put_pc.response_json.pageid,
            revision_id |-> put_pc.response_json.revid])
    /\ put_pc' = [put_pc EXCEPT !.step = "latest"]
    /\ UNCHANGED <<indexVars, upstream, raw_files, latest_files, put_log,
                   fetch_ret, clock, res, snip, raceVars, reconVars, pipeVars>>

\* latest_path.write_text
PutWriteLatest ==
    /\ put_pc.step = "latest"
    /\ latest_files' = WriteFile(latest_files,
           get_latest_manifest_path(put_pc.page_title),
           [revision_id |-> put_pc.response_json.revid,
            retrieved_at |-> put_pc.retrieved_at,
            sha256 |-> sha256_hash_json(put_pc.response_json)])
    /\ put_pc' = [put_pc EXCEPT !.step = "index"]
    /\ UNCHANGED <<indexVars, upstream, raw_files, meta_files, put_log,
                   fetch_ret, clock, res, snip, raceVars, reconVars, pipeVars>>

\* update_evidence_index and the return of the document.
PutUpdateIndex ==
    LET response_json == put_pc.response_json
        sha256        == sha256_hash_json(response_json)
        evidence_id   == generate_evidence_id(response_json.pageid,
                             response_json.revid, "parse", sha256)
    IN  /\ put_pc.step = "index"
        /\ ~UpdateRaises(index_file)
        /\ index_file' = UpsertFile(index_file,
               IndexEntry(evidence_id, "mediawiki", PutPath, PutPath,
                          put_pc.page_title, response_json.pageid,
                          response_json.revid, sha256))
        /\ put_log' = WriteFile(put_log, PutPath, evidence_id)
        /\ fetch_ret' = [revalidate |-> FALSE, parsed |-> TRUE,
                         doc |-> [page_id |-> response_json.pageid,
                                  revision_id |-> response_json.revid,
                                  page_title |-> put_pc.page_title,
                                  html |-> response_json.html]]
        /\ put_pc' = IdlePut
        /\ UNCHANGED <<call_log, upstream, raw_files, meta_files, latest_files,
                       clock, res, snip, raceVars, reconVars, pipeVars>>

\* The process dies inside the write path; the disk keeps what was written.
Crash ==
    /\ put_pc.step \in {"raw", "metadata", "latest", "index"}
    /\ put_pc' = IdlePut
    /\ UNCHANGED <<indexVars, upstream, raw_files, meta_files, latest_files,
                   put_log, fetch_ret, clock, res, snip, raceVars, reconVars, pipeVars>>

PutCall == \E t \in Titles : PutFetch(t)

NextCrash ==
    \/ UpstreamEdit
    \/ PutCall
    \/ PutWriteRaw
    \/ PutWriteMetadata
    \/ PutWriteLatest
    \/ PutUpdateIndex
    \/ Crash

SpecCrash == Init /\ [][NextCrash]_vars

(***************************************************************************)
(* The resolver over an index file as it may be found on disk: entries     *)
(* written by update_evidence_index, legacy entries that carry a           *)
(* snippet_ref (a dict or a legacy string), blank lines, undecodable lines *)
(* and JSON lines that are no object.  The cache holds one document of     *)
(* each page.                                                              *)
(***************************************************************************)
MaxLines == 2

DiskPayload(i) ==
    [pageid |-> i, revid |-> i, title |-> TitleList[i], html |-> <<"html", i, i>>]
DiskDir(i) == get_cache_path(TitleList[i], i)
DiskId(i) == generate_evidence_id(i, i, "parse", sha256_hash_json(DiskPayload(i)))
DiskEntry(i) ==
    IndexEntry(DiskId(i), "mediawiki", DiskDir(i), DiskDir(i), TitleList[i], i, i,
               sha256_hash_json(DiskPayload(i)))
DiskMeta(i) ==
    [retrieved_at |-> i, sha256 |-> sha256_hash_json(DiskPayload(i)),
     page_title |-> TitleList[i], page_id |-> i, revision_id |-> i]

DiskLines ==
    {EntryLine(DiskEntry(1)),
     EntryLine([DiskEntry(1) EXCEPT !.snippet_ref = TableRowRef(0, 0)]),
     EntryLine([DiskEntry(2) EXCEPT !.snippet_ref = LegacyRef(0, 0)]),
     OtherLine("blank"), OtherLine("garbage"), OtherLine("nondict")}

InitDisk ==
    /\ index_file \in SeqsUpTo(DiskLines, MaxLines)
    /\ call_log = << >>
    /\ upstream = [t \in Titles |-> PageId(t)]
    /\ raw_files = [d \in {DiskDir(1), DiskDir(2)} |->
                       IF d = DiskDir(1) THEN DiskPayload(1) ELSE DiskPayload(2)]
    /\ meta_files = [d \in {DiskDir(1), DiskDir(2)} |->
                        IF d = DiskDir(1) THEN DiskMeta(1) ELSE DiskMeta(2)]
    /\ latest_files = << >>
    /\ put_log = << >>
    /\ fetch_ret = NullRet
    /\ clock = 0
    /\ put_pc = IdlePut
    /\ res = NullRes
    /\ snip = NullSnip
    /\ InitPipe
    /\ InitWriters
    /\ InitNoRecon

DiskIds == {DiskId(1), DiskId(2), BogusId}

\* The resolver writes nothing, so one call from every disk content covers
\* every call of a longer run.
ResolveDisk ==
    /\ res.call = ""
    /\ \E ids \in SeqsUpTo(DiskIds, MaxResolve), ws \in BOOLEAN :
          resolve(ids, ws)

ResolveRefsDisk ==
    /\ res.call = ""
    /\ \E refs \in SeqsUpTo(EvidenceRefs(DiskIds), MaxResolve),
          ws \in BOOLEAN :
          resolve_refs(refs, ws)

NextDisk == ResolveDisk \/ ResolveRefsDisk

SpecDisk == InitDisk /\ [][NextDisk]_vars

\* update_evidence_index called on the index files above, before or after
\* a resolver call loads them.
UpdateDisk == \E i \in 1..2 : update_evidence_index(DiskEntry(i))

NextDiskUpdate == UpdateDisk \/ ResolveDisk

SpecDiskUpdate == InitDisk /\ [][NextDiskUpdate]_vars

(***************************************************************************)
(* The functions of snippets.py called on small documents: paragraphs over *)
(* a two-letter alphabet, a paragraph with footnote markers, one of more   *)
(* than MIN_LEAD_LEN characters, and tables of up to MaxRows rows.         *)
(***************************************************************************)
MaxText == 5
MaxRows == 3

Alphabet == {"a", " "}
TextsUpTo(n) == UNION {[1..k -> Alphabet] : k \in 0..n}
LongText == [i \in 1..(MIN_LEAD_LEN + 2) |-> IF i % 4 = 0 THEN " " ELSE "a"]
FootnoteText == <<"a", "[", "1", "2", "]", "\n", " ", "b", "[", "a", "]">>
SampleTexts == TextsUpTo(MaxText) \cup {FootnoteText, LongText}
SnippetLens == (2..(MaxText - 1)) \cup {MIN_LEAD_LEN, SNIPPET_MAX_LEN}

Doc(paragraphs, tables) == <<"doc", paragraphs, tables>>
Table(wikitable, rows) == [wikitable |-> wikitable, rows |-> rows]

LeadDocs ==
    {Doc(<< >>, << >>)}
    \cup {Doc(<<t>>, << >>) : t \in SampleTexts}
    \cup {Doc(<<t1, t2>>, << >>) :
             t1, t2 \in {<<"a">>, <<" ">>, LongText, FootnoteText}}

HeadRow  == << <<"h">>, <<"h">> >>
NameRow  == << <<"a">>, <<" ", "b", "[", "1", "]", " ">> >>
BlankRow == << <<" ">>, << >> >>
WideRow  == << <<"a", " ", "a", " ", "a">>, << >>, <<"a", "a">> >>
SampleRows == {HeadRow, NameRow, BlankRow, WideRow}
SampleLead == <<"l", " ", "l", " ", "l">>

TableDocs ==
    {Doc(<<SampleLead>>, <<Table(TRUE, rows)>>) :
        rows \in SeqsUpTo(SampleRows, MaxRows)}
    \cup {Doc(<<SampleLead>>, <<Table(w1, <<HeadRow, NameRow>>),
                                Table(w2, <<HeadRow, WideRow>>)>>) :
             w1, w2 \in BOOLEAN}

SnippetRefs ==
    {None, LegacyBadRef, <<"str", "table_row">>, <<"str", "table_row", <<1>> >>,
     <<"str", "lead_paragraph">>, <<"dict", "lead_paragraph", 0, 0>>}
    \cup {TableRowRef(t, r) : t \in 0..1, r \in 0..1}
    \cup {LegacyRef(t, r) : t \in 0..1, r \in 0..1}

SnippetDocs ==
    {None, Doc(<< >>, <<Table(TRUE, <<HeadRow, NameRow>>)>>)}
    \cup {Doc(<<SampleLead>>, <<Table(TRUE, rows)>>) :
             rows \in {<< >>, <<HeadRow>>, <<HeadRow, NameRow>>,
                       <<HeadRow, BlankRow, WideRow>>}}

LeadCall ==
    /\ snip.call = ""
    /\ \E html \in LeadDocs, max_len \in SnippetLens :
          snip' = [call |-> "extract_lead_paragraph", html |-> html,
                   snippet_ref |-> None, max_len |-> max_len, prefer |-> "",
                   out |-> extract_lead_paragraph(html, max_len)]
    /\ UNCHANGED <<indexVars, cacheVars, res, raceVars, reconVars, pipeVars>>

TableRowCall ==
    /\ snip.call = ""
    /\ \E html \in TableDocs, t \in 0..2, r \in 0..MaxRows, max_len \in SnippetLens :
          snip' = [call |-> "extract_table_row_snippet", html |-> html,
                   snippet_ref |-> TableRowRef(t, r), max_len |-> max_len,
                   prefer |-> "",
                   out |-> extract_table_row_snippet(html, TableRowRef(t, r),
                                                     max_len)]
    /\ UNCHANGED <<indexVars, cacheVars, res, raceVars, reconVars, pipeVars>>

SnippetCall ==
    /\ snip.call = ""
    /\ \E html \in SnippetDocs, snippet_ref \in SnippetRefs, max_len \in SnippetLens,
          prefer \in {"table_row", "lead_paragraph"} :
          snip' = [call |-> "extract_snippet", html |-> html,
                   snippet_ref |-> snippet_ref, max_len |-> max_len,
                   prefer |-> prefer,
                   out |-> extract_snippet(html, snippet_ref, max_len, prefer)]
    /\ UNCHANGED <<indexVars, cacheVars, res, raceVars, reconVars, pipeVars>>

NextSnippet == LeadCall \/ TableRowCall \/ SnippetCall

SpecSnippet == Init /\ [][NextSnippet]_vars

(***************************************************************************)
(* reconcile/wiki_dip.py.  A string is the tuple of its whitespace-        *)
(* separated tokens and a token a tuple of characters; "" and None are the *)
(* empty tuple.  Every token of the names below keeps a letter when it is  *)
(* normalised, so two normalised strings are equal exactly when their      *)
(* token tuples are.  Scores are in hundredths: every sum of               *)
(* {0, .5, .48}, {0, .45, .43} and {0, .05} compares with .95 and .5 and   *)
(* differs from another by .05 in floating point as the hundredths do.     *)
(***************************************************************************)
RULESET_VERSION == "ruleset_v1"

\* str.lower on the characters that occur.
Lower(c) ==
    CASE c = "H" -> "h" [] c = "J" -> "j" [] c = "M" -> "m" [] c = "W" -> "w"
      [] c = "Ü" -> "ü" [] c = "N" -> "n" [] c = "P" -> "p" [] OTHER -> c

\* NFKD followed by re.sub(r"[^\w\s]", "", .): an umlaut decomposes into its
\* base letter and a combining mark, which is not a word character;
\* punctuation goes; the sharp s stays.
NfkdWord(c) ==
    CASE c = "ü" -> <<"u">> [] c = "ö" -> <<"o">> [] c = "ä" -> <<"a">>
      [] c \in {".", "-"} -> << >> [] OTHER -> <<c>>

RECURSIVE NormalizeToken(_)
NormalizeToken(tok) ==
    IF tok = << >> THEN << >>
    ELSE NfkdWord(Lower(Head(tok))) \o NormalizeToken(Tail(tok))

normalize_name(name) == [i \in 1..Len(name) |-> NormalizeToken(name[i])]

UmlautChar(c) ==
    CASE c = "ä" -> <<"a", "e">> [] c = "ö" -> <<"o", "e">>
      [] c = "ü" -> <<"u", "e">> [] c = "ß" -> <<"s", "s">>
      [] c = "Ä" -> <<"A", "e">> [] c = "Ö" -> <<"O", "e">>
      [] c = "Ü" -> <<"U", "e">> [] OTHER -> <<c>>

RECURSIVE UmlautToken(_)
UmlautToken(tok) ==
    IF tok = << >> THEN << >>
    ELSE UmlautChar(Head(tok)) \o UmlautToken(Tail(tok))

normalize_umlauts(text) == [i \in 1..Len(text) |-> UmlautToken(text[i])]

\* <<vorname, nachname, namenszusatz>>
extract_name_parts(name) ==
    LET parts == SelectSeq(name, LAMBDA tok : tok # << >>)
    IN  IF Len(parts) >= 2
        THEN <<<<parts[1]>>, <<parts[Len(parts)]>>,
               IF Len(parts) > 2 THEN SubSeq(parts, 2, Len(parts) - 1) ELSE None>>
        ELSE IF Len(parts) = 1 THEN <<<<parts[1]>>, << >>, None>>
        ELSE <<<< >>, << >>, None>>

score_match(wiki_record, dip_record) ==
    LET wiki_name_norm   == normalize_name(wiki_record.name)
        wiki_parts       == extract_name_parts(wiki_name_norm)
        wiki_vorname     == wiki_parts[1]
        wiki_nachname    == wiki_parts[2]
        wiki_namenszusatz == wiki_parts[3]
        dip_vorname_norm  == normalize_name(dip_record.vorname)
        dip_nachname_norm == normalize_name(dip_record.nachname)
        dip_namenszusatz_norm == normalize_name(dip_record.namenszusatz)
        s1 == IF wiki_nachname # << >> /\ dip_nachname_norm # << >>
              THEN IF wiki_nachname = dip_nachname_norm THEN 50
                   ELSE IF normalize_umlauts(wiki_nachname)
                              = normalize_umlauts(dip_nachname_norm) THEN 48
                   ELSE 0
              ELSE 0
        s2 == IF wiki_vorname # << >> /\ dip_vorname_norm # << >>
              THEN IF wiki_vorname = dip_vorname_norm THEN 45
                   ELSE IF normalize_umlauts(wiki_vorname)
                              = normalize_umlauts(dip_vorname_norm) THEN 43
                   ELSE 0
              ELSE 0
        s3 == IF /\ wiki_namenszusatz # << >> /\ dip_namenszusatz_norm # << >>
                 /\ wiki_namenszusatz = dip_namenszusatz_norm
              THEN 5 ELSE 0
        score == s1 + s2 + s3
    IN  IF score >= 95 THEN (IF score < 100 THEN score ELSE 100) ELSE score

TitleLower(title) == [i \in 1..Len(title) |-> Lower(title[i])]

generate_canonical_id(wikipedia_title, dip_person_id) ==
    IF wikipedia_title # << >> THEN <<"wikipedia", TitleLower(wikipedia_title)>>
    ELSE IF dip_person_id # 0 THEN <<"dip", dip_person_id>>
    ELSE <<"unknown">>

generate_link_assertion_id(wikipedia_ref, dip_ref, ruleset_version) ==
    <<wikipedia_ref, dip_ref, ruleset_version>>

\* str(dip_person_id); the reference of the no-candidate assertion is "none".
Str(n) == <<"str", n>>
NoneRef == <<"none">>

PersonLinkAssertion(wiki_record, dip_ref, method, score, status, evidence_ids) ==
    [id |-> generate_link_assertion_id(wiki_record.id, dip_ref, RULESET_VERSION),
     wikipedia_person_ref |-> wiki_record.id, dip_person_ref |-> dip_ref,
     ruleset_version |-> RULESET_VERSION, method |-> method, score |-> score,
     status |-> status, evidence_ids |-> evidence_ids]

CanonicalPerson(wiki_record, dip_record) ==
    [id |-> generate_canonical_id(wiki_record.wikipedia_title,
                                  dip_record.dip_person_id),
     display_name |-> wiki_record.name,
     identifiers |-> [wikipedia_title |-> wiki_record.wikipedia_title,
                      wikipedia_page_id |-> wiki_record.page_id,
                      dip_person_id |-> Str(dip_record.dip_person_id)],
     evidence_ids |-> wiki_record.evidence_ids \o dip_record.evidence_ids]

\* overrides.get(wiki_record.wikipedia_title) is a dict with a dip_person_id.
HasOverride(wiki_record) ==
    /\ use_overrides
    /\ wiki_record.wikipedia_title \in DOMAIN overrides
    /\ overrides[wiki_record.wikipedia_title].dip_person_id # 0

\* An override that takes its status from the file as it is.
OverrideBranchStatusAsIs(wiki_record) ==
    LET override == overrides[wiki_record.wikipedia_title]
        hits == {k \in 1..Len(dip_records) :
                    dip_records[k].dip_person_id = override.dip_person_id}
    IN  IF hits = {} THEN [assertions |-> << >>, canonical |-> << >>]
        ELSE LET dip_record == dip_records[CHOOSE k \in hits :
                                              \A j \in hits : k <= j]
                 status == IF override.status = "" THEN "accepted"
                           ELSE override.status
             IN  [assertions |->
                     <<PersonLinkAssertion(wiki_record,
                           Str(override.dip_person_id), "override", 100, status,
                           wiki_record.evidence_ids \o dip_record.evidence_ids)>>,
                  canonical |->
                     IF status = "accepted"
                     THEN <<CanonicalPerson(wiki_record, dip_record)>>
                     ELSE << >>]

\* Lines 134-171: at most one override assertion, none when the target is
\* not among the DIP records.
OverrideBranch(wiki_record) ==
    LET override == overrides[wiki_record.wikipedia_title]
        hits == {k \in 1..Len(dip_records) :
                    dip_records[k].dip_person_id = override.dip_person_id}
    IN  IF hits = {} THEN [assertions |-> << >>, canonical |-> << >>]
        ELSE LET dip_record == dip_records[CHOOSE k \in hits :
                                              \A j \in hits : k <= j]
                 status == IF override.status # "rejected"
                           THEN "accepted" ELSE "rejected"
             IN  [assertions |->
                     <<PersonLinkAssertion(wiki_record,
                           Str(override.dip_person_id), "override", 100, status,
                           wiki_record.evidence_ids \o dip_record.evidence_ids)>>,
                  canonical |->
                     IF status = "accepted"
                     THEN <<CanonicalPerson(wiki_record, dip_record)>>
                     ELSE << >>]

\* Lines 173-177: the DIP records scoring at least 0.5, in input order.
Candidates(wiki_record) ==
    LET scored == [k \in 1..Len(dip_records) |->
                      [dip_record |-> dip_records[k],
                       score |-> score_match(wiki_record, dip_records[k])]]
    IN  SelectSeq(scored, LAMBDA c : c.score >= 50)

\* list.sort(key=score, reverse=True): descending, equal scores keep their
\* order.
SortByScoreDesc(cs) ==
    LET rank(k) == Cardinality({j \in 1..Len(cs) :
                       \/ cs[j].score > cs[k].score
                       \/ cs[j].score = cs[k].score /\ j <= k})
    IN  [r \in 1..Len(cs) |-> cs[CHOOSE k \in 1..Len(cs) : rank(k) = r]]

\* The slice candidates[:2].
TopTwo(cs) == SubSeq(cs, 1, IF Len(cs) < 2 THEN Len(cs) ELSE 2)

\* The slice candidates[:3].
TopThree(cs) == SubSeq(cs, 1, IF Len(cs) < 3 THEN Len(cs) ELSE 3)

\* An accept test with a strict threshold.
AcceptsAbove(best_score, second_best_score) ==
    best_score > 95 /\ best_score - second_best_score >= 5

\* Line 202.
Accepts(best_score, second_best_score) ==
    best_score >= 95 /\ best_score - second_best_score >= 5

\* Lines 181-252, candidates being the sorted list.
RulesetBranch(wiki_record, candidates) ==
        IF candidates = << >>
        THEN [assertions |->
                 <<PersonLinkAssertion(wiki_record, NoneRef, "ruleset", 0,
                                       "pending", wiki_record.evidence_ids)>>,
              canonical |-> << >>]
        ELSE LET best_score == candidates[1].score
                 second_best_score ==
                     IF Len(candidates) > 1 THEN candidates[2].score ELSE 0
                 top == TopThree(candidates)
             IN  IF Accepts(best_score, second_best_score)
                 THEN [assertions |->
                          <<PersonLinkAssertion(wiki_record,
                                Str(candidates[1].dip_record.dip_person_id),
                                "ruleset", best_score, "accepted",
                                wiki_record.evidence_ids
                                    \o candidates[1].dip_record.evidence_ids)>>,
                       canonical |->
                          <<CanonicalPerson(wiki_record, candidates[1].dip_record)>>]
                 ELSE [assertions |->
                          [k \in 1..Len(top) |->
                              PersonLinkAssertion(wiki_record,
                                  Str(top[k].dip_record.dip_person_id),
                                  "ruleset", top[k].score, "pending",
                                  wiki_record.evidence_ids
                                      \o top[k].dip_record.evidence_ids)],
                       canonical |-> << >>]

\* Lines 120-127: the call binds its arguments and starts with empty
\* results; the loop over an empty list returns at once.
reconcile_wiki_dip(wiki, dip, use) ==
    /\ rec_pc = "idle"
    /\ wiki_records' = wiki
    /\ dip_records' = dip
    /\ use_overrides' = use
    /\ rec_i' = 0
    /\ canonical_persons' = << >>
    /\ assertions' = << >>
    /\ rec_pc' = IF wiki = << >> THEN "returned" ELSE "loop"
    /\ UNCHANGED <<overrides, indexVars, cacheVars, res, snip, raceVars, pipeVars>>

\* One pass of the loop over wiki_records (lines 129-252); after the last
\* one the function returns (line 254).
ReconcileRecord ==
    /\ rec_pc = "loop"
    /\ \E wiki_record \in {wiki_records[rec_i + 1]} :
          IF HasOverride(wiki_record)
          THEN \E out \in {OverrideBranch(wiki_record)} :
                  /\ assertions' = assertions \o out.assertions
                  /\ canonical_persons' = canonical_persons \o out.canonical
          ELSE \E scored \in {Candidates(wiki_record)} :
               \E candidates \in {SortByScoreDesc(scored)} :
               \E out \in {RulesetBranch(wiki_record, candidates)} :
                  /\ assertions' = assertions \o out.assertions
                  /\ canonical_persons' = canonical_persons \o out.canonical
    /\ rec_i' = rec_i + 1
    /\ rec_pc' = IF rec_i + 1 = Len(wiki_records) THEN "returned" ELSE "loop"
    /\ UNCHANGED <<wiki_records, dip_records, use_overrides, overrides,
                   indexVars, cacheVars, res, snip, raceVars, pipeVars>>

(***************************************************************************)
(* reconcile_wiki_dip on lists over a few persons.                         *)
(***************************************************************************)
MaxWiki == 2
MaxDip == 4

Hans   == <<"H", "s">>
Johann == <<"J">>
Von    == <<"v">>
Mueller == <<"M", "ü", "l">>
Muller  == <<"M", "u", "l">>
Muel    == <<"M", "u", "e", "l">>
Weiss   == <<"W", "-", "ß">>
Weiss2  == <<"W", "s", "s">>

WikiRecord(id, name, title, page_id) ==
    [id |-> id, wikipedia_title |-> title, page_id |-> page_id, name |-> name,
     evidence_ids |-> <<"e1">>]

\* The rows of a members list.  The id of a record is derived from its
\* title (utils/ids.py:12), the name is the text of the link: the fourth
\* row links the page of the first under another name, the fifth a page of
\* its own.
WikiRow(n) ==
    CASE n = 1 -> WikiRecord("w1", <<Hans, Mueller>>, <<"H", "M">>, 1)
      [] n = 2 -> WikiRecord("w2", <<Hans, Von, Weiss>>, <<"H", "W">>, 2)
      [] n = 3 -> WikiRecord("w3", <<Mueller>>, <<"M">>, 3)
      [] n = 4 -> WikiRecord("w1", <<Johann, Mueller>>, <<"H", "M">>, 1)
      [] OTHER -> WikiRecord("w5", <<Johann, Mueller>>, <<"J", "M">>, 5)

WikiPersons == {WikiRow(n) : n \in 1..5}

\* The rows of a set in the order of the list.
RECURSIVE RowsOf(_)
RowsOf(S) ==
    IF S = {} THEN << >>
    ELSE LET m == CHOOSE x \in S : \A y \in S : x <= y
         IN  <<WikiRow(m)>> \o RowsOf(S \ {m})

DipRecord(dip_person_id, vorname, nachname, namenszusatz, evidence_ids) ==
    [dip_person_id |-> dip_person_id, vorname |-> vorname, nachname |-> nachname,
     namenszusatz |-> namenszusatz, evidence_ids |-> evidence_ids]

DipPerson(n) ==
    CASE n = 1 -> DipRecord(1, <<Hans>>, <<Mueller>>, None, <<"e2">>)
      [] n = 2 -> DipRecord(2, <<Hans>>, <<Muller>>, None, <<"e2">>)
      [] n = 3 -> DipRecord(3, <<Johann>>, <<Mueller>>, None, <<"e1">>)
      [] n = 4 -> DipRecord(4, <<Hans>>, <<Weiss2>>, <<Von>>, <<"e2">>)
      [] n = 5 -> DipRecord(5, None, <<Mueller>>, None, << >>)
      [] n = 6 -> DipRecord(6, <<Hans>>, <<Weiss>>, None, <<"e2">>)
      [] OTHER -> DipRecord(7, <<Hans>>, <<Muel>>, None, <<"e2">>)

\* The DIP persons of a set by ascending id.
RECURSIVE Ascending(_)
Ascending(S) ==
    IF S = {} THEN << >>
    ELSE LET m == CHOOSE x \in S : \A y \in S : x <= y
         IN  <<DipPerson(m)>> \o Ascending(S \ {m})

Override(dip_person_id, status) ==
    [dip_person_id |-> dip_person_id, status |-> status]

\* The override files: none, and an override for the first person's page with
\* or without a status, for a person DIP does not have, or without a
\* dip_person_id.
OverrideFiles ==
    {<< >>} \cup
    {[t \in {<<"H", "M">>} |-> o] :
        o \in {Override(3, ""), Override(3, "accepted"), Override(3, "rejected"),
               Override(3, "pending"), Override(9, ""), Override(0, "")}}

InitReconcile ==
    /\ index_file = << >>
    /\ call_log = << >>
    /\ InitCache
    /\ res = NullRes
    /\ snip = NullSnip
    /\ InitPipe
    /\ InitWriters
    /\ wiki_records = << >>
    /\ dip_records = << >>
    /\ use_overrides = FALSE
    /\ overrides \in OverrideFiles
    /\ rec_pc = "idle"
    /\ rec_i = 0
    /\ canonical_persons = << >>
    /\ assertions = << >>

ReconcileCall ==
    /\ rec_pc = "idle"
    /\ \E W \in {T \in SUBSET (1..5) : Cardinality(T) <= MaxWiki},
          S \in {T \in SUBSET (1..7) : Cardinality(T) <= MaxDip},
          use \in BOOLEAN :
          reconcile_wiki_dip(RowsOf(W), Ascending(S), use)

NextReconcile == ReconcileCall \/ ReconcileRecord

SpecReconcile == InitReconcile /\ [][NextReconcile]_vars

(***************************************************************************)
(* validate_seeds of cache/mediawiki_cache.py.  The seeds file is a YAML    *)
(* mapping: a list of <<seed_key, seed_data>> with distinct seed keys, in   *)
(* file order.  seed_data is a mapping with or without each of its fields,  *)
(* or no mapping at all.                                                    *)
(***************************************************************************)
MaxSeeds == 2

\* Line 64.
required_fields == {"key", "page_title", "expected_time_range"}

\* seed_data: the fields it holds, the value under "key" and whether the
\* value under "expected_time_range" is a mapping with start and end; the
\* two values mean nothing when their field is absent.
SeedData(fields, key, time_range_ok) ==
    [is_dict |-> TRUE, fields |-> fields, key |-> key,
     time_range_ok |-> time_range_ok]
NoDict == [is_dict |-> FALSE, fields |-> {}, key |-> "", time_range_ok |-> FALSE]

\* Lines 65-67: some required field is not in seed_data.
MissesField(seed_data) == \E field \in required_fields : field \notin seed_data.fields

\* Lines 61-78, one pass of the loop: the message of the ValueError it
\* raises, "" when it raises none.
SeedError(seed_key, seed_data, seen_keys) ==
    IF ~seed_data.is_dict THEN "must be a dictionary"
    ELSE IF MissesField(seed_data) THEN "missing required field"
    ELSE IF seed_data.key # seed_key THEN "key mismatch"
    ELSE IF seed_data.key \in seen_keys THEN "Duplicate seed key"
    ELSE IF ~seed_data.time_range_ok
    THEN "expected_time_range must have start and end"
    ELSE ""

\* Lines 53-78 on the loaded mapping: the first error of the loop, seen_keys
\* being the keys of the passes before.
validate_seeds(seeds) ==
    LET seen_keys(i) == {seeds[j][2].key : j \in 1..(i - 1)}
        errors == {i \in 1..Len(seeds) :
                      SeedError(seeds[i][1], seeds[i][2], seen_keys(i)) # ""}
    IN  IF errors = {} THEN ""
        ELSE LET i == SetMin(errors)
             IN  SeedError(seeds[i][1], seeds[i][2], seen_keys(i))

SeedKeys == {"nds_lt_17", "nds_lt_17_dup"}
SeedDatas ==
    {NoDict} \cup
    {SeedData(required_fields \ missing, key, time_range_ok) :
        missing \in {{}, {"key"}, {"page_title"}, {"expected_time_range"}},
        key \in SeedKeys, time_range_ok \in BOOLEAN}

\* The seeds files: up to MaxSeeds entries under distinct seed keys.
SeedFiles ==
    {f \in SeqsUpTo(SeedKeys \X SeedDatas, MaxSeeds) :
        \A i, j \in 1..Len(f) : i # j => f[i][1] # f[j][1]}

ValidateCall ==
    /\ ~seeds_ret.call
    /\ \E seeds \in SeedFiles :
          seeds_ret' = [call |-> TRUE, seeds |-> seeds,
                        raised |-> validate_seeds(seeds)]
    /\ UNCHANGED <<indexVars, cacheVars, res, snip, raceVars, reconVars, pipe,
                   dip_ingest>>

NextSeeds == ValidateCall

SpecSeeds == InitIndex /\ [][NextSeeds]_vars

(***************************************************************************)
(* sources/dip/ingest.py.  A page of the person list is known by the       *)
(* cursor of its request; what matters of a response is the cursor it      *)
(* carries.  The page counter and metadata.json are written and never      *)
(* read.                                                                   *)
(***************************************************************************)
DipCursors == {"A", "B"}

\* Lines 43-48: a call starts without a cursor; the cache directory stays
\* from call to call.
IngestCall ==
    /\ dip_ingest.pc # "loop"
    /\ \E force \in BOOLEAN :
          dip_ingest' = [pc |-> "loop", force |-> force, cursor |-> "",
                         cache |-> dip_ingest.cache, requested |-> {},
                         again |-> FALSE]
    /\ UNCHANGED <<indexVars, cacheVars, res, snip, raceVars, reconVars, pipe,
                   seeds_ret>>

\* Lines 103-108 after a response with the given cursor, the cache being
\* what the pass left.
AfterResponse(response_cursor, cache) ==
    LET cursor == dip_ingest.cursor
    IN  [dip_ingest EXCEPT
            !.cache = cache,
            !.requested = dip_ingest.requested \cup {cursor},
            !.again = dip_ingest.again \/ cursor \in dip_ingest.requested,
            !.pc = IF response_cursor = "" \/ response_cursor = cursor
                   THEN "returned" ELSE "loop",
            !.cursor = IF response_cursor = "" \/ response_cursor = cursor
                       THEN cursor ELSE response_cursor]

\* Lines 50-108, one pass of the loop: the page comes from the cache, or
\* the API delivers a response with any cursor (which is cached) or fails.
DipPage ==
    /\ dip_ingest.pc = "loop"
    /\ IF ~dip_ingest.force /\ dip_ingest.cursor \in DOMAIN dip_ingest.cache
       THEN dip_ingest' = AfterResponse(dip_ingest.cache[dip_ingest.cursor],
                                        dip_ingest.cache)
       ELSE \/ \E response_cursor \in DipCursors \cup {""} :
                 dip_ingest' =
                     AfterResponse(response_cursor,
                                   WriteFile(dip_ingest.cache, dip_ingest.cursor,
                                             response_cursor))
            \/ dip_ingest' = [dip_ingest EXCEPT !.pc = "raised"]
    /\ UNCHANGED <<indexVars, cacheVars, res, snip, raceVars, reconVars, pipe,
                   seeds_ret>>

NextDip == IngestCall \/ DipPage

\* A pass of the loop that has started ends: the request is answered or
\* raises.
SpecDip == InitIndex /\ [][NextDip]_vars /\ WF_vars(DipPage)

(***************************************************************************)
(* parsers/legislature_members.py, parsers/person_page.py and the          *)
(* enrichment loop of PipelineRunner._normalize (pipeline/run.py).  A      *)
(* Person or a Mandate holds the evidence_ids and the evidence_refs its    *)
(* creator passes; tests/test_legislature_members_produces_evidence_refs   *)
(* (lines 23-27) requires just that of a parsed Person.                    *)
(***************************************************************************)
MaxMembers == 2

EvidenceRef(evidence_id, snippet_ref, purpose) ==
    [evidence_id |-> evidence_id, snippet_ref |-> snippet_ref,
     purpose |-> purpose]

Person(wikipedia_title, evidence_ids, evidence_refs) ==
    [wikipedia_title |-> wikipedia_title, evidence_ids |-> evidence_ids,
     evidence_refs |-> evidence_refs]

Mandate(person_title, evidence_ids, evidence_refs) ==
    [person_title |-> person_title, evidence_ids |-> evidence_ids,
     evidence_refs |-> evidence_refs]

\* The words the parser looks for, as texts.
Chars(word) ==
    CASE word = "name" -> <<"n", "a", "m", "e">>
      [] word = "abgeordnete" -> <<"a", "b", "g", "e", "o", "r", "d", "n", "e", "t", "e">>
      [] word = "partei" -> <<"p", "a", "r", "t", "e", "i">>
      [] word = "fraktion" -> <<"f", "r", "a", "k", "t", "i", "o", "n">>
      [] word = "wahlkreis" -> <<"w", "a", "h", "l", "k", "r", "e", "i", "s">>
      [] word = "anmerkung" -> <<"a", "n", "m", "e", "r", "k", "u", "n", "g">>
      [] word = "bemerkung" -> <<"b", "e", "m", "e", "r", "k", "u", "n", "g">>
      [] word = "notiz" -> <<"n", "o", "t", "i", "z">>
      [] word = "von" -> <<"v", "o", "n">>
      [] word = "start" -> <<"s", "t", "a", "r", "t">>
      [] word = "beginn" -> <<"b", "e", "g", "i", "n", "n">>
      [] word = "bis" -> <<"b", "i", "s">>
      [] OTHER -> <<"e", "n", "d", "e">>

\* word in text
Contains(text, word) ==
    \E i \in 1..(Len(text) - Len(Chars(word)) + 1) :
        SubSeq(text, i, i + Len(Chars(word)) - 1) = Chars(word)

\* re.sub(r"\s+", " ", text.strip().lower())
normalize_header(text) ==
    CollapseWhitespace([i \in 1..Len(Strip(text)) |-> Lower(Strip(text)[i])])

\* The normalised texts of the cells of the first <tr> of a table.
HeaderTexts(table) ==
    [i \in 1..Len(table.rows[1]) |-> normalize_header(table.rows[1][i])]

\* Lines 26-39: the header row names a name column and a party, Fraktion
\* or Wahlkreis column.
IsMembersTable(table) ==
    /\ table.rows # << >>
    /\ \E i \in DOMAIN HeaderTexts(table) : Contains(HeaderTexts(table)[i], "name")
    /\ \E i \in DOMAIN HeaderTexts(table) :
          \/ Contains(HeaderTexts(table)[i], "partei")
          \/ Contains(HeaderTexts(table)[i], "fraktion")
          \/ Contains(HeaderTexts(table)[i], "wahlkreis")

\* Lines 19-52: the position among all tables of the page of the first
\* one with such a header row, 0 for None.  The pages have no h2-h4
\* heading, so the search by headings (lines 41-50) finds nothing.
find_members_table(soup) ==
    LET found == {p \in 1..Len(soup.tables) : IsMembersTable(soup.tables[p])}
    IN  IF found = {} THEN 0 ELSE SetMin(found)

\* Lines 65-76: the column a header cell names.
HeaderKey(text) ==
    IF Contains(text, "name") \/ Contains(text, "abgeordnete") THEN "name"
    ELSE IF Contains(text, "partei") \/ Contains(text, "fraktion") THEN "party"
    ELSE IF Contains(text, "wahlkreis") THEN "wahlkreis"
    ELSE IF \/ Contains(text, "anmerkung") \/ Contains(text, "bemerkung")
            \/ Contains(text, "notiz") THEN "notes"
    ELSE IF \/ Contains(text, "von") \/ Contains(text, "start")
            \/ Contains(text, "beginn") THEN "start"
    ELSE IF Contains(text, "bis") \/ Contains(text, "ende") THEN "end"
    ELSE ""

\* Lines 55-78: the dict from column names to cell indices, counted from
\* 0; a later cell of the same column replaces an earlier one.
extract_table_headers(table) ==
    IF table.rows = << >> THEN << >>
    ELSE LET texts == HeaderTexts(table)
             keys  == {HeaderKey(texts[i]) : i \in DOMAIN texts} \ {""}
         IN  [key \in keys |->
                 SetMax({i - 1 : i \in {j \in DOMAIN texts :
                                           HeaderKey(texts[j]) = key}})]

\* Lines 274-288: the index of the table among the wikitables of the page
\* (all tables if there is none); 0 when it is not among them.
find_table_index(soup, target_table) ==
    LET all_tables == AllTables(soup)
        hits == {idx \in 1..Len(all_tables) : all_tables[idx] = target_table}
    IN  IF hits = {} THEN 0 ELSE SetMin(hits) - 1

\* str.replace(" ", "_")
Underscored(text) ==
    [i \in 1..Len(text) |-> IF text[i] = " " THEN "_" ELSE text[i]]

\* legislature_members.py:115-183 on the cells of a row and the titles of
\* the links in them (None: no <a>; the link spans the text of its cell):
\* None, or <<person, membership_evidence_ref>>.  The row reference goes to
\* the Mandate, the Person gets no reference.
extract_person_from_row(cells, anchors, headers, evidence_id, table_index, row_index) ==
    IF Len(cells) <= SetMax({headers[key] : key \in DOMAIN headers} \cup {0})
    THEN None
    ELSE IF "name" \notin DOMAIN headers THEN None
    ELSE LET name_cell == cells[headers["name"] + 1]
             name_link == anchors[headers["name"] + 1]
             wikipedia_title ==
                 IF Underscored(name_link) # << >> THEN Underscored(name_link)
                 ELSE Underscored(Strip(name_cell))
         IN  IF name_link = None THEN None
             ELSE IF Strip(name_cell) = << >> THEN None
             ELSE <<Person(wikipedia_title, <<evidence_id>>, << >>),
                    EvidenceRef(evidence_id, TableRowRef(table_index, row_index),
                                "membership_row")>>

\* legislature_members.py:186-272.
extract_mandate_from_row(person, evidence_id, membership_evidence_ref) ==
    Mandate(person.wikipedia_title, <<evidence_id>>, <<membership_evidence_ref>>)

\* person_page.py:133-157: the Person parsed from a person page.
parse_person_page(page_title, evidence_id) ==
    Person(page_title, <<evidence_id>>,
           <<EvidenceRef(evidence_id, None, "person_page_intro")>>)

\* run.py:411: the key of a reference in the merge.
RefKey(ref) == <<ref.evidence_id, ref.purpose, ref.snippet_ref>>

\* run.py:411-416: a dict keyed by RefKey, filled from the person's
\* references and then from the parsed ones whose key is new; its values
\* in insertion order.
MergeRefs(old, parsed) ==
    LET firsts(refs, seen) ==
            SelectSeq([k \in 1..Len(refs) |-> <<refs[k], k>>],
                      LAMBDA rk : /\ RefKey(rk[1]) \notin seen
                                  /\ \A j \in 1..(rk[2] - 1) :
                                         RefKey(refs[j]) # RefKey(rk[1]))
        kept == firsts(old, {})
        more == firsts(parsed, {RefKey(old[k]) : k \in 1..Len(old)})
    IN  [k \in 1..Len(kept) |-> kept[k][1]] \o [k \in 1..Len(more) |-> more[k][1]]

\* run.py:419-421: the ids the person has, with those of the references.
MergedIds(person, refs) ==
    {person.evidence_ids[k] : k \in 1..Len(person.evidence_ids)}
        \cup {refs[k].evidence_id : k \in 1..Len(refs)}

\* list(a_set): the elements once each, in the order of the set's hashes.
ListsOf(S) ==
    {l \in [1..Cardinality(S) -> S] : \A x \in S : \E k \in DOMAIN l : l[k] = x}

\* legislature_members.py:291-348: the members of the page, each with the
\* <tr> it was parsed from, or the ValueError raised.
parse_legislature_members(html, evidence_id) ==
    LET soup == Soup(html)
        p    == find_members_table(soup)
    IN  IF p = 0
        THEN [raised |-> "Could not find members table", members |-> << >>]
        ELSE LET table       == soup.tables[p]
                 headers     == extract_table_headers(table)
                 table_index == find_table_index(soup, table)
                 data_rows   == Tail(table.rows)
                 results     ==
                     [k \in 1..Len(data_rows) |->
                         [row |-> data_rows[k],
                          result |-> extract_person_from_row(
                                         data_rows[k], table.anchors[k + 1],
                                         headers, evidence_id, table_index,
                                         k - 1)]]
                 found       == SelectSeq(results, LAMBDA r : r.result # None)
             IN  IF DOMAIN headers = {}
                 THEN [raised |-> "Could not extract table headers",
                       members |-> << >>]
                 ELSE [raised |-> "",
                       members |->
                          [k \in 1..Len(found) |->
                              [person |-> found[k].result[1],
                               mandate |-> extract_mandate_from_row(
                                               found[k].result[1], evidence_id,
                                               found[k].result[2]),
                               row |-> found[k].row]]]

\* The pages: legislature pages and the evidence ids of their cached
\* revisions, the person pages their rows link and those pages' ids.
ListEvidence == {"ev1", "ev2"}
PersonPages == {<<"P">>, <<"Q">>}
PageEvidence(title) == IF title = <<"P">> THEN "ev3" ELSE "ev4"

\* A members table: a header row "Name", "Partei" and one row for each
\* entry, the name cell linking the person's page; the entry None is a row
\* whose name cell has no link ("vacant").
MembersTable(wikitable, entries) ==
    [wikitable |-> wikitable,
     rows |-> << << <<"N", "a", "m", "e">>, <<"P", "a", "r", "t", "e", "i">> >> >>
              \o [k \in 1..Len(entries) |->
                     IF entries[k] = None THEN << <<"v">>, << >> >>
                     ELSE <<entries[k] \o <<" ", "x">>, <<"p">> >>],
     anchors |-> << <<None, None>> >>
                 \o [k \in 1..Len(entries) |-> <<entries[k], None>>]]

\* A table of something else.
OtherTable(wikitable) ==
    [wikitable |-> wikitable, rows |-> <<HeadRow, NameRow>>,
     anchors |-> << <<None, None>>, <<None, None>> >>]

\* The members table alone, after or before another table, each of them a
\* wikitable or not; and a page without a members table.
MemberDocs ==
    {Doc(<<SampleLead>>, <<OtherTable(TRUE)>>)}
    \cup {Doc(<<SampleLead>>, tables) :
             tables \in UNION {{<<MembersTable(w1, entries)>>,
                                <<OtherTable(w2), MembersTable(w1, entries)>>,
                                <<MembersTable(w1, entries), OtherTable(w2)>>} :
                               w1 \in BOOLEAN, w2 \in BOOLEAN,
                               entries \in SeqsUpTo(PersonPages \cup {None},
                                                    MaxMembers) \ {<< >>}}}

\* The runner parses the members of a legislature page.
ParseMembers ==
    /\ pipe.pc = "idle"
    /\ \E html \in MemberDocs, evidence_id \in ListEvidence, fetch \in BOOLEAN :
       \E out \in {parse_legislature_members(html, evidence_id)} :
          pipe' = [pc |-> IF out.raised # "" THEN "raised"
                          ELSE IF out.members = << >> THEN "done"
                          ELSE "normalize",
                   html |-> html, fetch_person_pages |-> fetch, i |-> 0,
                   members |-> out.members]
    /\ UNCHANGED <<indexVars, cacheVars, res, snip, raceVars, reconVars,
                   seeds_ret, dip_ingest>>

\* run.py:344-444, one member: the person page is fetched and parsed, and
\* the references and ids of the parsed person are merged into the person's
\* (lines 409-422); an exception in between leaves the person as it is
\* (line 436).
EnrichMember ==
    /\ pipe.pc = "normalize"
    /\ \E person \in {pipe.members[pipe.i + 1].person} :
       \E failed \in BOOLEAN :
          IF pipe.fetch_person_pages /\ person.wikipedia_title # << >> /\ ~failed
          THEN \E parsed_person \in
                   {parse_person_page(person.wikipedia_title,
                                      PageEvidence(person.wikipedia_title))} :
               \E refs \in {MergeRefs(person.evidence_refs,
                                       parsed_person.evidence_refs)} :
               \E ids \in ListsOf(MergedIds(person, refs)) :
                  pipe' = [pipe EXCEPT
                             !.members[pipe.i + 1].person.evidence_refs = refs,
                             !.members[pipe.i + 1].person.evidence_ids = ids,
                             !.i = pipe.i + 1,
                             !.pc = IF pipe.i + 1 = Len(pipe.members)
                                    THEN "done" ELSE "normalize"]
          ELSE pipe' = [pipe EXCEPT
                          !.i = pipe.i + 1,
                          !.pc = IF pipe.i + 1 = Len(pipe.members)
                                 THEN "done" ELSE "normalize"]
    /\ UNCHANGED <<indexVars, cacheVars, res, snip, raceVars, reconVars,
                   seeds_ret, dip_ingest>>

NextPipeline == ParseMembers \/ EnrichMember

SpecPipeline == InitIndex /\ [][NextPipeline]_vars

\* The citation of a member: extract_table_row_snippet on the page the
\* member was parsed from, with the reference of the member's mandate.
MemberSnippet ==
    /\ pipe.pc \in {"normalize", "done"}
    /\ snip.call = ""
    /\ \E k \in 1..Len(pipe.members), max_len \in {MaxText, SNIPPET_MAX_LEN} :
       \E snippet_ref \in {pipe.members[k].mandate.evidence_refs[1].snippet_ref} :
          snip' = [call |-> "extract_table_row_snippet", html |-> pipe.html,
                   snippet_ref |-> snippet_ref, max_len |-> max_len,
                   prefer |-> "",
                   out |-> extract_table_row_snippet(pipe.html, snippet_ref,
                                                     max_len)]
    /\ UNCHANGED <<indexVars, cacheVars, res, raceVars, reconVars, pipeVars>>

NextMembers == ParseMembers \/ MemberSnippet

SpecMembers == InitIndex /\ [][NextMembers]_vars

(***************************************************************************)
(* Claims.                                                                 *)
(***************************************************************************)
CalledIds == {call_log[i].evidence_id : i \in 1..Len(call_log)}
LastCall(id) ==
    call_log[SetMax({i \in 1..Len(call_log) : call_log[i].evidence_id = id})]
LinesOf(id) ==
    {i \in 1..Len(index_file) :
        index_file[i].kind = "entry" /\ index_file[i].e.evidence_id = id}

\* C1: after any sequence of update_evidence_index calls by one writer the
\* index holds exactly one entry for every evidence id upserted, that entry
\* carries the fields of the last call made for the id, and there is no
\* other line.
C1_UpsertLastWriteWins ==
    /\ \A id \in CalledIds :
          /\ Cardinality(LinesOf(id)) = 1
          /\ \A i \in LinesOf(id) : index_file[i].e = LastCall(id)
    /\ Len(index_file) = Cardinality(CalledIds)

\* The same id was upserted twice with different incidental fields.
C1_Witness ==
    \E i, j \in 1..Len(call_log) :
        /\ i < j
        /\ call_log[i].evidence_id = call_log[j].evidence_id
        /\ call_log[i] # call_log[j]
        /\ Cardinality(LinesOf(call_log[j].evidence_id)) = 1

RECURSIVE IsSubseq(_, _)
IsSubseq(a, b) ==
    IF a = << >> THEN TRUE
    ELSE IF b = << >> THEN FALSE
    ELSE IF Head(a) = Head(b) THEN IsSubseq(Tail(a), Tail(b))
    ELSE IsSubseq(a, Tail(b))

\* C3: resolve and resolve_refs never raise, and their result is an
\* order-preserving sub-list of the input, for every index and cache content.
C3_ResolveNeverRaises ==
    res.call # "" =>
        /\ ~res.raised
        /\ IsSubseq([i \in 1..Len(res.out) |-> res.out[i].evidence_id], res.ids)

C9_PutIdempotent ==
    [][\A t \in Titles, rv \in BOOLEAN :
          LET d == get_cache_path(t, upstream[t])
          IN  (/\ FetchAndStore(t, rv)
               /\ d \in DOMAIN raw_files
               /\ raw_files[d] = fetch_parse(t))
              => /\ put_log'[d] = put_log[d]
                 /\ raw_files' = raw_files
                 /\ DOMAIN meta_files' = DOMAIN meta_files
                 /\ DOMAIN latest_files' = DOMAIN latest_files
                 /\ latest_files'[get_latest_manifest_path(t)].revision_id
                       = upstream[t]
                 /\ Cardinality(LinesOf(put_log[d])') = 1]_vars

\* Two puts have written the same cache directory.
C9_Witness ==
    /\ clock >= 2
    /\ Cardinality(DOMAIN raw_files) = 1
    /\ \A d \in DOMAIN raw_files : Cardinality(LinesOf(put_log[d])) = 1

\* The upstream current revision is the one the latest pointer names and
\* its raw payload is cached.
CurrentIsCached(t) ==
    /\ normalize_title(t) \in DOMAIN latest_files
    /\ latest_files[normalize_title(t)].revision_id = upstream[t]
    /\ <<normalize_title(t), upstream[t]>> \in DOMAIN raw_files

\* C10: with revalidate set, the cached document is returned without a
\* parse fetch exactly when the upstream current revision equals the latest
\* pointer's revision and that revision's raw payload is cached; otherwise
\* the current revision is fetched and stored.
C10_Revalidate ==
    [][\A t \in Titles, force \in BOOLEAN :
          fetch_and_cache_parse(t, force, TRUE) =>
              LET d == <<normalize_title(t), upstream[t]>>
              IN  IF CurrentIsCached(t)
                  THEN /\ ~fetch_ret'.parsed
                       /\ fetch_ret'.doc = load_cached_parse_response(raw_files[d])
                       /\ UNCHANGED <<raw_files, meta_files, latest_files,
                                      index_file, clock>>
                  ELSE /\ fetch_ret'.parsed
                       /\ fetch_ret'.doc.revision_id = upstream[t]
                       /\ d \in DOMAIN raw_files'
                       /\ raw_files'[d] = fetch_parse(t)
                       /\ latest_files'[normalize_title(t)].revision_id
                             = upstream[t]
                       /\ clock' = clock + 1]_vars

\* A revalidating call returned the cached document without a parse fetch.
C10_Witness ==
    /\ fetch_ret.revalidate
    /\ ~fetch_ret.parsed
    /\ fetch_ret.doc # NullDoc
    /\ fetch_ret.doc.revision_id = upstream[fetch_ret.doc.page_title]

\* C2: two update_evidence_index calls for different evidence ids that
\* interleave their load and write-back steps lose an update.  Once both
\* calls have written and no other is running, the index lacks the entry of
\* one of them exactly when the second to write had loaded before the first
\* wrote; the entry missing is then the first writer's.
C2_LostUpdateIffInterleaved ==
    (/\ Len(write_log) = 2
     /\ \A w \in Writers : writers[w].pc = "idle"
     /\ write_log[1].entry.evidence_id # write_log[2].entry.evidence_id)
    => /\ LinesOf(write_log[2].entry.evidence_id) # {}
       /\ LinesOf(write_log[1].entry.evidence_id) = {}
             <=> write_log[2].seen = 0

\* Both calls returned and the entry of the first to write is not in the index.
C2_Witness ==
    /\ Len(write_log) = 2
    /\ \A w \in Writers : writers[w].pc = "idle"
    /\ write_log[1].entry.evidence_id # write_log[2].entry.evidence_id
    /\ write_log[2].seen = 0
    /\ LinesOf(write_log[1].entry.evidence_id) = {}
    /\ Len(index_file) = 1

\* The Wikipedia record a pass of the loop goes through, and what the pass
\* appends.
StepRecord == wiki_records[rec_i + 1]
NewAssertions == SubSeq(assertions', Len(assertions) + 1, Len(assertions'))
NewCanonical ==
    SubSeq(canonical_persons', Len(canonical_persons) + 1, Len(canonical_persons'))

\* The positions of the DIP records that score at least 0.5 against r.
CandidateSet(r) ==
    {k \in 1..Len(dip_records) : score_match(r, dip_records[k]) >= 50}

\* Position k holds the best candidate of r, it scores at least 0.95 and
\* every other candidate at least 0.05 less.
AcceptedAt(r, k) ==
    /\ k \in CandidateSet(r)
    /\ score_match(r, dip_records[k]) >= 95
    /\ \A j \in CandidateSet(r) \ {k} :
          score_match(r, dip_records[k]) - score_match(r, dip_records[j]) >= 5

\* The override of r names a person among the DIP records.
OverrideTargetExists(r) ==
    /\ use_overrides
    /\ r.wikipedia_title \in DOMAIN overrides
    /\ \E k \in 1..Len(dip_records) :
          dip_records[k].dip_person_id = overrides[r.wikipedia_title].dip_person_id

\* C5 as stated: an override whose target DIP person exists always produces
\* one accepted assertion with method override and score 1.0, and no
\* ruleset assertion for the record.
C5_OverrideAlwaysAccepted ==
    [][(ReconcileRecord /\ OverrideTargetExists(StepRecord))
          => /\ Len(NewAssertions) = 1
             /\ NewAssertions[1].method = "override"
             /\ NewAssertions[1].score = 100
             /\ NewAssertions[1].status = "accepted"]_vars

\* C5 amended: an override whose target DIP person exists produces exactly
\* one assertion for the record, with method override, score 1.0 and the
\* override's target as DIP side, whatever the ruleset score; its status is
\* rejected when the override's status is rejected and accepted otherwise,
\* and a canonical person is produced exactly when it is accepted.
C5_OverrideAcceptedUnlessRejected ==
    [][(ReconcileRecord /\ OverrideTargetExists(StepRecord))
          => LET o == overrides[StepRecord.wikipedia_title]
             IN  /\ Len(NewAssertions) = 1
                 /\ NewAssertions[1].method = "override"
                 /\ NewAssertions[1].score = 100
                 /\ NewAssertions[1].wikipedia_person_ref = StepRecord.id
                 /\ NewAssertions[1].dip_person_ref = <<"str", o.dip_person_id>>
                 /\ NewAssertions[1].status =
                       (IF o.status = "rejected" THEN "rejected" ELSE "accepted")
                 /\ Len(NewCanonical) =
                       (IF o.status = "rejected" THEN 0 ELSE 1)]_vars

\* An override was applied to a pair the ruleset scores 0.5.
C5_Witness ==
    /\ rec_i = 1
    /\ Len(assertions) = 1
    /\ assertions[1].method = "override"
    /\ assertions[1].status = "accepted"
    /\ Len(canonical_persons) = 1
    /\ \E k \in 1..Len(dip_records) :
          /\ <<"str", dip_records[k].dip_person_id>> = assertions[1].dip_person_ref
          /\ score_match(wiki_records[1], dip_records[k]) = 50

\* C6: for a record the override branch does not take, when the best DIP
\* candidate scores >= 0.95 and every other candidate at least 0.05 less,
\* exactly one assertion is appended, accepted, by the ruleset, with that
\* candidate as DIP side, and exactly one canonical person linking the two;
\* in particular a single candidate with the identical normalised first and
\* last name is accepted with a score >= 0.95.
C6_UniqueMatchAccepted ==
    [][(ReconcileRecord /\ ~HasOverride(StepRecord))
          => \A k \in 1..Len(dip_records) :
               /\ AcceptedAt(StepRecord, k) =>
                    /\ Len(NewAssertions) = 1
                    /\ NewAssertions[1].status = "accepted"
                    /\ NewAssertions[1].method = "ruleset"
                    /\ NewAssertions[1].wikipedia_person_ref = StepRecord.id
                    /\ NewAssertions[1].dip_person_ref
                          = <<"str", dip_records[k].dip_person_id>>
                    /\ NewAssertions[1].score
                          = score_match(StepRecord, dip_records[k])
                    /\ Len(NewCanonical) = 1
                    /\ NewCanonical[1].identifiers.dip_person_id
                          = <<"str", dip_records[k].dip_person_id>>
                    /\ NewCanonical[1].identifiers.wikipedia_title
                          = StepRecord.wikipedia_title
               /\ (/\ CandidateSet(StepRecord) = {k}
                   /\ LET parts == extract_name_parts(normalize_name(StepRecord.name))
                      IN  /\ parts[1] # << >> /\ parts[2] # << >>
                          /\ parts[1] = normalize_name(dip_records[k].vorname)
                          /\ parts[2] = normalize_name(dip_records[k].nachname))
                  => /\ Len(NewAssertions) = 1
                     /\ NewAssertions[1].status = "accepted"
                     /\ NewAssertions[1].score >= 95]_vars

\* A record with a runner-up 0.05 or more behind was accepted.
C6_Witness ==
    /\ rec_i = 1
    /\ ~HasOverride(wiki_records[1])
    /\ Cardinality(CandidateSet(wiki_records[1])) >= 2
    /\ \E k \in 1..Len(dip_records) : AcceptedAt(wiki_records[1], k)
    /\ Len(assertions) = 1
    /\ assertions[1].status = "accepted"
    /\ Len(canonical_persons) = 1

\* The candidates the appended assertions name.
Emitted(r) ==
    {k \in CandidateSet(r) :
        \E i \in 1..Len(NewAssertions) :
            /\ NewAssertions[i].dip_person_ref
                  = <<"str", dip_records[k].dip_person_id>>
            /\ NewAssertions[i].score = score_match(r, dip_records[k])}

\* C7: for a record the override branch does not take that has n >= 1
\* candidates but fails the accept condition, every appended assertion is
\* pending, the assertions name min(3, n) distinct candidates none of which
\* scores less than a candidate left out, and no canonical person is
\* appended.
C7_AmbiguousPending ==
    [][(/\ ReconcileRecord
        /\ ~HasOverride(StepRecord)
        /\ CandidateSet(StepRecord) # {}
        /\ ~\E k \in 1..Len(dip_records) : AcceptedAt(StepRecord, k))
          => LET n == Cardinality(CandidateSet(StepRecord))
                 m == IF n < 3 THEN n ELSE 3
             IN  /\ Len(NewAssertions) = m
                 /\ Cardinality(Emitted(StepRecord)) = m
                 /\ \A i \in 1..m :
                       /\ NewAssertions[i].status = "pending"
                       /\ NewAssertions[i].wikipedia_person_ref = StepRecord.id
                 /\ \A k \in Emitted(StepRecord) :
                       \A j \in CandidateSet(StepRecord) \ Emitted(StepRecord) :
                           score_match(StepRecord, dip_records[k])
                               >= score_match(StepRecord, dip_records[j])
                 /\ NewCanonical = << >>]_vars

\* A record with four candidates and a tie at the top got three pending
\* assertions.
C7_Witness ==
    /\ rec_i = 1
    /\ ~HasOverride(wiki_records[1])
    /\ Cardinality(CandidateSet(wiki_records[1])) = 4
    /\ Len(assertions) = 3
    /\ \A i \in 1..3 : assertions[i].status = "pending"
    /\ assertions[1].score = assertions[2].score
    /\ canonical_persons = << >>

\* C8: when reconcile_wiki_dip has gone through its input, the assertions
\* hold at least one assertion for every input Wikipedia record.
C8_AssertionTrailComplete ==
    rec_pc = "returned" =>
        \A i \in 1..Len(wiki_records) :
            \E j \in 1..Len(assertions) :
                assertions[j].wikipedia_person_ref = wiki_records[i].id

\* C11: the payload and the metadata of a put appear together -- in every
\* state, also inside the write path and after the process died in it, a
\* cache directory that has a raw payload has a metadata file, and that file
\* carries the sha256 of this payload.
C11_PutAtomic ==
    \A d \in DOMAIN raw_files :
        /\ d \in DOMAIN meta_files
        /\ meta_files[d].sha256 = sha256_hash_json(raw_files[d])

\* C12: a resolve or resolve_refs call with with_snippets = false opens no
\* raw.json, whether its ids are in the index or not.
C12_NoRawReadWithoutSnippets ==
    (res.call # "" /\ ~res.with_snippets) => ~res.read_raw

\* The document an item of a resolver result was resolved from.
HtmlOf(ev) == raw_files[ev.cache_raw_path].html

\* The snippet and snippet source of a lead paragraph (or of none).
LeadResult(html) ==
    LET lead == extract_lead_paragraph(html, SNIPPET_MAX_LEN)
    IN  <<lead, IF lead # None THEN <<"lead_paragraph">> ELSE None>>

Elems(seq) == {seq[i] : i \in 1..Len(seq)}

\* C13: resolve_refs with snippets gives, for a reference that carries a
\* typed table_row reference, the text of that table row with source
\* table_row when the row can be extracted, and the lead paragraph with
\* source lead_paragraph when it cannot (table or row index out of range, row
\* without text); for a reference without snippet reference (and an index
\* entry without one) it gives the lead paragraph.
C13_TableRowThenLeadFallback ==
    (/\ res.call = "resolve_refs" /\ res.with_snippets /\ ~res.raised
     /\ Len(res.out) = Len(res.refs))
    => \A i \in 1..Len(res.out) :
          LET ref == res.refs[i].snippet_ref
              ev  == res.out[i]
              row == extract_table_row_snippet(HtmlOf(ev), ref, SNIPPET_MAX_LEN)
          IN  IF ref # None
              THEN <<ev.snippet, ev.snippet_source>> =
                      (IF row # None THEN <<row, <<"table_row">> >>
                       ELSE LeadResult(HtmlOf(ev)))
              ELSE ev.snippet_ref = None
                      => <<ev.snippet, ev.snippet_source>> = LeadResult(HtmlOf(ev))

LegacyDictEntryResolved ==
    /\ res.call = "resolve" /\ res.with_snippets /\ Len(res.ids) = 1
    /\ ~LoadRaises(index_file)
    /\ IndexGet(index_file, res.ids[1]).snippet_ref # None
    /\ IndexGet(index_file, res.ids[1]).snippet_ref[1] = "dict"
    /\ IndexGet(index_file, res.ids[1]).snippet_ref[2] = "table_row"

C16_LegacyStringAsTyped ==
    (/\ res.call = "resolve" /\ Len(res.ids) = 1
     /\ ~LoadRaises(index_file)
     /\ IsLegacyTableRow(IndexGet(index_file, res.ids[1]).snippet_ref)
     /\ ~LegacyRaises(IndexGet(index_file, res.ids[1]).snippet_ref))
    => LET entry == IndexGet(index_file, res.ids[1])
           html  == raw_files[entry.cache_raw_path].html
       IN  /\ ~res.raised
           /\ Len(res.out) = 1
           /\ <<res.out[1].snippet, res.out[1].snippet_source>> =
                 (IF res.with_snippets
                  THEN extract_snippet(html, LegacyDecode(entry.snippet_ref),
                                       SNIPPET_MAX_LEN, "lead_paragraph")
                  ELSE <<None, None>>)

\* The normalized text that a call of extract_lead_paragraph on a document of
\* one paragraph, or of extract_table_row_snippet on a row the document has,
\* cuts to max_len; None for any other call.
NormalizedText ==
    IF snip.call = "extract_lead_paragraph" /\ snip.html # None
          /\ Len(Soup(snip.html).paragraphs) = 1
    THEN clean_snippet_text(Soup(snip.html).paragraphs[1])
    ELSE IF snip.call = "extract_table_row_snippet" /\ snip.out # None
    THEN LET all_tables == AllTables(Soup(snip.html))
             data_rows  == DataRows(all_tables[snip.snippet_ref[3] + 1].rows)
         IN  clean_snippet_text(Join(CellTexts(data_rows[snip.snippet_ref[4] + 1])))
    ELSE None

\* C17: a normalized text longer than max_len is returned, by the lead
\* paragraph and by the table row path, as at most max_len characters of it
\* that end where a word ends (the next character of the text is a space),
\* followed by "...".
C17_TruncationKeepsWords ==
    Len(NormalizedText) > snip.max_len
    => LET n == Len(snip.out) - 3
       IN  /\ n >= 0 /\ n <= snip.max_len
           /\ SubSeq(snip.out, n + 1, n + 3) = Ellipsis
           /\ SubSeq(snip.out, 1, n) = SubSeq(NormalizedText, 1, n)
           /\ NormalizedText[n + 1] = " "

\* C18: extract_table_row_snippet takes the first row of the selected table
\* as the header and row_index as the index into the rows after it: a
\* table_index that is not below the number of tables, or a row_index that
\* is not below the number of rows after the first, gives no snippet.
C18_HeaderNeverData ==
    snip.call = "extract_table_row_snippet"
    => LET all_tables  == AllTables(Soup(snip.html))
           table_index == snip.snippet_ref[3]
           row_index   == snip.snippet_ref[4]
       IN  (\/ table_index >= Len(all_tables)
            \/ row_index >= Len(all_tables[table_index + 1].rows) - 1)
           => snip.out = None

\* C19: the assertion of an override whose target exists carries the
\* override's status (accepted, pending or rejected), accepted when the
\* override has none.
C19_OverrideStatusAsIs ==
    [][(ReconcileRecord /\ OverrideTargetExists(StepRecord))
          => LET o == overrides[StepRecord.wikipedia_title]
             IN  /\ Len(NewAssertions) = 1
                 /\ NewAssertions[1].status =
                       (IF o.status = "" THEN "accepted" ELSE o.status)]_vars

PairOf(c) == <<c.identifiers.wikipedia_title, c.identifiers.dip_person_id>>

\* C21: the id of a canonical person is a function of its pair (Wikipedia
\* key, DIP key): canonical persons of the same pair have the same id, and
\* canonical persons whose pairs differ in either key have different ids.
C21_CanonicalIdOfPair ==
    \A i, j \in 1..Len(canonical_persons) :
        /\ PairOf(canonical_persons[i]) = PairOf(canonical_persons[j])
              => canonical_persons[i].id = canonical_persons[j].id
        /\ PairOf(canonical_persons[i]) # PairOf(canonical_persons[j])
              => canonical_persons[i].id # canonical_persons[j].id

\* A name as it is written, for comparison: lower case, punctuation left
\* out, umlauts and sharp s kept.
WrittenChar(c) == IF Lower(c) \in {".", "-"} THEN << >> ELSE <<Lower(c)>>

RECURSIVE WrittenToken(_)
WrittenToken(tok) ==
    IF tok = << >> THEN << >>
    ELSE WrittenChar(Head(tok)) \o WrittenToken(Tail(tok))

Written(name) == [i \in 1..Len(name) |-> WrittenToken(name[i])]

\* The written name with ae, oe, ue, ss for the umlauts and the sharp s.
Folded(name) == [i \in 1..Len(name) |-> UmlautToken(WrittenToken(name[i]))]

\* How two names compare: "exact" when they are written the same, "folded"
\* when they differ but are the same after umlaut folding.
Compare(a, b) ==
    IF a = << >> \/ b = << >> THEN "absent"
    ELSE IF Written(a) = Written(b) THEN "exact"
    ELSE IF Folded(a) = Folded(b) THEN "folded"
    ELSE "other"

\* The given and the family name of a Wikipedia record of two or more words.
WikiGiven(r) == <<r.name[1]>>
WikiFamily(r) == <<r.name[Len(r.name)]>>

\* The bonus of line 81 for equal name suffixes.
SuffixBonus(r, d) ==
    LET parts == extract_name_parts(normalize_name(r.name))
    IN  IF /\ parts[3] # << >>
           /\ parts[3] = normalize_name(d.namenszusatz)
        THEN 5 ELSE 0

\* C22: for every Wikipedia record the loop has scored and every DIP
\* record, the score lies in [0, 1]; a family name written the same
\* contributes 0.50 and one equal only after umlaut folding 0.48, a given
\* name written the same 0.45 and one equal only after folding 0.43 (so
\* equal family names and folded-equal given names score 0.93), on top of
\* the suffix bonus.
C22_UmlautFoldedCredit ==
    \A i \in 1..rec_i : \A k \in 1..Len(dip_records) :
        LET r == wiki_records[i]
            d == dip_records[k]
            fam == Compare(WikiFamily(r), d.nachname)
            giv == Compare(WikiGiven(r), d.vorname)
            score == score_match(r, d)
        IN  /\ score \in 0..100
            /\ (Len(r.name) >= 2 /\ {fam, giv} \subseteq {"exact", "folded"})
                  => score = (IF fam = "exact" THEN 50 ELSE 48)
                             + (IF giv = "exact" THEN 45 ELSE 43)
                             + SuffixBonus(r, d)

\* The evidence ids a list of references carries.
RefIds(refs) == {refs[k].evidence_id : k \in 1..Len(refs)}

\* The legacy list of an entity is the deduplicated union of the ids of
\* its references.
DerivedFromRefs(entity) ==
    /\ Elems(entity.evidence_ids) = RefIds(entity.evidence_refs)
    /\ Len(entity.evidence_ids) = Cardinality(Elems(entity.evidence_ids))

\* C23: on every Person and Mandate, as the parser creates it and after
\* every enrichment merge, evidence_ids is the deduplicated union of the
\* evidence ids of its evidence_refs.
C23_EvidenceIdsDerived ==
    \A k \in 1..Len(pipe.members) :
        /\ DerivedFromRefs(pipe.members[k].person)
        /\ DerivedFromRefs(pipe.members[k].mandate)

\* C24: a malformed index line is never fatal and does not touch other
\* entries: whatever lines the index file holds, load_evidence_index and
\* update_evidence_index do not raise on it, and an update leaves every
\* other valid entry of the file as load_evidence_index returned it before.
C24_MalformedLineNotFatal ==
    /\ [](~LoadRaises(index_file) /\ ~UpdateRaises(index_file))
    /\ [][index_file' # index_file
            => \A id \in DiskIds :
                  (/\ IndexHits(index_file, id) # {}
                   /\ id # call_log'[Len(call_log')].evidence_id)
                  => IndexGet(index_file', id) = IndexGet(index_file, id)]_vars

\* Every entry of the file is a mapping that holds every required field
\* and a time range with start and end.
Complete(f) ==
    \A i \in 1..Len(f) :
        f[i][2].is_dict /\ ~MissesField(f[i][2]) /\ f[i][2].time_range_ok

\* C25: validate_seeds rejects a seeds file in which two entries declare
\* the same key value (and nothing else is wrong with the entries) with
\* "Duplicate seed key", and a file whose first entry lacks key, page_title
\* or expected_time_range with "missing required field".
C25_DuplicateSeedKeyRejected ==
    seeds_ret.call =>
        LET f == seeds_ret.seeds
        IN  /\ (/\ Complete(f)
                /\ \E i, j \in 1..Len(f) : i # j /\ f[i][2].key = f[j][2].key)
               => seeds_ret.raised = "Duplicate seed key"
            /\ (f # << >> /\ f[1][2].is_dict /\ MissesField(f[1][2]))
               => seeds_ret.raised = "missing required field"

\* A canonical person names the Wikipedia record and the DIP person of an
\* assertion: the record's id is the one derived from the title the
\* canonical person carries.
NamesSamePair(c, a) ==
    /\ \E r \in WikiPersons : /\ r.wikipedia_title = c.identifiers.wikipedia_title
                              /\ r.id = a.wikipedia_person_ref
    /\ c.identifiers.dip_person_id = a.dip_person_ref

CanonicalOf(a) ==
    {k \in 1..Len(canonical_persons) : NamesSamePair(canonical_persons[k], a)}

\* C26: canonical persons and accepted assertions correspond one to one:
\* an accepted assertion has exactly one canonical person of its pair,
\* every canonical person has an accepted assertion of its pair, and no
\* pending or rejected assertion has a canonical person.
C26_CanonicalOnePerAccepted ==
    /\ \A i \in 1..Len(assertions) :
          IF assertions[i].status = "accepted"
          THEN Cardinality(CanonicalOf(assertions[i])) = 1
          ELSE CanonicalOf(assertions[i]) = {}
    /\ \A k \in 1..Len(canonical_persons) :
          \E i \in 1..Len(assertions) :
              /\ assertions[i].status = "accepted"
              /\ k \in CanonicalOf(assertions[i])

\* C27: no DIP person is the DIP side of accepted assertions, or of
\* canonical persons, for two different Wikipedia records.
C27_DipSideLinkedOnce ==
    /\ \A i, j \in 1..Len(assertions) :
          (/\ assertions[i].status = "accepted"
           /\ assertions[j].status = "accepted"
           /\ assertions[i].dip_person_ref = assertions[j].dip_person_ref)
          => assertions[i].wikipedia_person_ref = assertions[j].wikipedia_person_ref
    /\ \A i, j \in 1..Len(canonical_persons) :
          canonical_persons[i].identifiers.dip_person_id
                = canonical_persons[j].identifiers.dip_person_id
          => canonical_persons[i].identifiers.wikipedia_title
                = canonical_persons[j].identifiers.wikipedia_title

\* C28: a cache hit for a title (force and revalidate false) returns a
\* document that was fetched for that title, never one cached by a fetch of
\* another title with the same filesystem-safe form.
C28_CacheHitOfOwnTitle ==
    [][\A t \in Titles :
          (fetch_and_cache_parse(t, FALSE, FALSE) /\ ~fetch_ret'.parsed)
              => /\ fetch_ret'.doc.page_title = t
                 /\ fetch_ret'.doc.page_id = PageId(t)]_vars

\* The snippet of a row: what extract_table_row_snippet makes of its cells.
RowSnippet(row, max_len) ==
    Truncate(clean_snippet_text(Join(CellTexts(row))), max_len)

\* C29: on the page a member was parsed from, the table_index and
\* row_index of the member's membership_row reference select the row the
\* member was parsed from, also when the members table is not the first
\* table or not a wikitable.
C29_SnippetCoordinatesRoundTrip ==
    snip.call = "extract_table_row_snippet" =>
        \A k \in 1..Len(pipe.members) :
            pipe.members[k].mandate.evidence_refs[1].snippet_ref = snip.snippet_ref
               => snip.out = RowSnippet(pipe.members[k].row, snip.max_len)

\* C30: ingest_person_list returns (or raises) whatever cursors the
\* responses carry, and requests no cursor twice.
C30_PaginationTerminates ==
    /\ (dip_ingest.pc = "loop") ~> (dip_ingest.pc # "loop")
    /\ [](~dip_ingest.again)

====
